---------------------------- MODULE Spec2Model ----------------------------
(***************************************************************************)
(* Voodoo Rush (SST-96) interface of the AT3D emulation: register file,    *)
(* PUMA address decode, CMDFIFO engine, parameter translation and command  *)
(* dispatch of src/src/video/vid_voodoo_rush.c.                            *)
(*                                                                         *)
(* Representation.  A uint32_t/int32_t value is the set of its set bit     *)
(* positions (a subset of 0..31), so that bit 31 and 0xFFFFFFFF exist and  *)
(* the masks, shifts and sign extensions of the code are set operations.   *)
(* Page numbers, pointers, counters and byte addresses, which the code     *)
(* keeps far below 2^31, are integers.  puma_fb and puma_tex are calloc'ed *)
(* byte arrays: a memory is the function from the addresses of its         *)
(* non-zero bytes to those bytes, every other byte reads 0.  The host is   *)
(* little-endian, as on every platform 86Box builds for.                   *)
(***************************************************************************)
EXTENDS Integers, Sequences, FiniteSets, TLC

VARIABLES
    rush,    \* the voodoo_rush_t structure, plus rush.log (see Emit)
    last,    \* the entry point called last, its arguments and return value
    steps,   \* number of entry-point calls made so far (bounded runs only)
    stream,  \* the singleton packets the guest has streamed (see StreamNext)
    at3d     \* the THP registers of the AT3D (at3d_t) and its voodoo_rush_enabled

vars == <<rush, last, steps, stream, at3d>>

-----------------------------------------------------------------------------
(* 32-bit words as bit sets *)

BitIdx == 0..31

\* the word of a non-negative integer below 2^31
W(n) == {i \in 0..30 : (n \div (2^i)) % 2 = 1}

RECURSIVE SumBits(_, _)
SumBits(w, i) ==
    IF i > 31 THEN 0
    ELSE (IF i \in w THEN 2^i ELSE 0) + SumBits(w, i + 1)

\* the unsigned value of a word whose bit 31 is clear
Val(w) == SumBits(w, 0)

\* the int32_t value of a word (two's complement)
Signed(w) == IF 31 \in w THEN (Val(w \ {31}) - 1073741824) - 1073741824 ELSE Val(w)

ZeroW == {}
AllOnes == BitIdx

Shr(w, k) == {i - k : i \in {j \in w : j >= k}}
Shl(w, k) == {i + k : i \in {j \in w : j + k <= 31}}
Low(w, n) == {i \in w : i < n}
\* (w >> at) & (2^width - 1)
Field(w, at, width) == Low(Shr(w, at), width)
\* int32_t >> k, an arithmetic shift on every compiler 86Box builds with
Asr(w, k) == Shr(w, k) \cup (IF 31 \in w THEN (32 - k)..31 ELSE {})

\* a & b on small non-negative integers
BitAnd(a, b) == Val(W(a) \cap W(b))

-----------------------------------------------------------------------------
(* calloc'ed byte memories *)

EmptyMem == [a \in {} |-> 0]

Rd8(m, a) == IF a \in DOMAIN m THEN m[a] ELSE 0

\* store the bytes upd (a function from addresses to bytes) into m
WrBytes(m, upd) ==
    LET all  == DOMAIN m \cup DOMAIN upd
        new(a) == IF a \in DOMAIN upd THEN upd[a] ELSE m[a]
    IN [a \in {x \in all : new(x) # 0} |-> new(a)]

\* byte k of a word
ByteOf(w, k) == Val(Field(w, 8 * k, 8))

\* *(uint32_t *) &mem[a]
Rd32(m, a) == UNION {Shl(W(Rd8(m, a + k)), 8 * k) : k \in 0..3}
Wr32(m, a, w) == WrBytes(m, [x \in a..(a + 3) |-> ByteOf(w, x - a)])
\* *(uint16_t *) &mem[a] = h, h a 16-bit word
Wr16(m, a, h) == WrBytes(m, [x \in a..(a + 1) |-> ByteOf(h, x - a)])

-----------------------------------------------------------------------------
(* vid_voodoo_rush.h: register numbers and the PUMA address space *)

SST96_STATUS == 0
SST96_VERTEX_AX == 2
SST96_VERTEX_AY == 3
SST96_VERTEX_BX == 4
SST96_VERTEX_BY == 5
SST96_VERTEX_CX == 6
SST96_VERTEX_CY == 7
SST96_START_R == 8
SST96_DRDX == 9
SST96_DRDY == 10
SST96_START_G == 11
SST96_DGDX == 12
SST96_DGDY == 13
SST96_START_B == 14
SST96_DBDX == 15
SST96_DBDY == 16
SST96_START_Z == 17
SST96_DZDX == 18
SST96_DZDY == 19
SST96_START_A == 20
SST96_DADX == 21
SST96_DADY == 22
SST96_START_S == 23
SST96_DSDX == 24
SST96_DSDY == 25
SST96_START_T == 26
SST96_DTDX == 27
SST96_DTDY == 28
SST96_START_W == 29
SST96_DWDX == 30
SST96_DWDY == 31
SST96_TRIANGLE_CMD == 32
SST96_NOP_CMD == 66
SST96_FASTFILL_CMD == 68
SST96_SWAPBUFFER_CMD == 70
SST96_SWAPPEND_CMD == 72
SST96_FBZ_COLOR_PATH == 80
SST96_FOG_MODE == 81
SST96_ALPHA_MODE == 82
SST96_FBZ_MODE == 84
SST96_STIPPLE == 85
SST96_COLOR0 == 86
SST96_COLOR1 == 87
SST96_FOG_COLOR == 88
SST96_ZA_COLOR == 89
SST96_CHROMA_KEY == 90
SST96_CHROMA_RANGE == 91
SST96_COL_BUFFER_SETUP == 96
SST96_AUX_BUFFER_SETUP == 97
SST96_CLIP_LEFT_RIGHT0 == 98
SST96_CLIP_TOP_BOTTOM0 == 99
SST96_CLIP_LEFT_RIGHT1 == 100
SST96_CLIP_TOP_BOTTOM1 == 101
SST96_FBIJR_INIT0 == 144
SST96_FBIJR_INIT1 == 145
SST96_FBIJR_INIT2 == 146
SST96_FBIJR_INIT3 == 147
SST96_FBIJR_INIT4 == 148
SST96_FBIJR_INIT5 == 149
SST96_FBIJR_VERSION == 160
SST96_FBI_PIXELS_IN == 161
SST96_FBI_CHROMA_FAIL == 162
SST96_FBI_ZFUNC_FAIL == 163
SST96_FBI_AFUNC_FAIL == 164
SST96_FBI_PIXELS_OUT == 165
SST96_TEXTURE_MODE == 193
SST96_TLOD == 194
SST96_TDETAIL == 195
SST96_TEX_BASE_ADDR == 196
SST96_TEX_BASE_ADDR1 == 197
SST96_TEX_BASE_ADDR2 == 198
SST96_TEX_BASE_ADDR38 == 199
SST96_CMDFIFO_BASE == 232
SST96_CMDFIFO_TOP == 233
SST96_CMDFIFO_BOTTOM == 234
SST96_CMDFIFO_RDPTR == 235
SST96_CMDFIFO_THRESHOLD == 236
SST96_CMDFIFO_ENABLE == 237

\* 8MB mode: 0x400000, 0x400000, 0x200000, 0x600000, 0x200000
SST96_PUMA_FB_SIZE == 4194304
SST96_PUMA_REG_START == 4194304
SST96_PUMA_REG_SIZE == 2097152
SST96_PUMA_TEX_START == 6291456
SST96_PUMA_TEX_SIZE == 2097152
\* 4MB mode: 0x200000, 0x200000, 0x100000, 0x300000, 0x100000
SST96_PUMA_FB_SIZE_4MB == 2097152
SST96_PUMA_REG_START_4MB == 2097152
SST96_PUMA_REG_SIZE_4MB == 1048576
SST96_PUMA_TEX_START_4MB == 3145728
SST96_PUMA_TEX_SIZE_4MB == 1048576

\* vid_voodoo_regs.h (bit positions of the masks the code tests)
FBZ_RGB_WMASK_BIT == 9
FBZ_DEPTH_WMASK_BIT == 10
FBZCP_TEXTURE_ENABLED_BIT == 27

-----------------------------------------------------------------------------
(* the structure *)

TriangleFields ==
    {"vertexAx", "vertexAy", "vertexBx", "vertexBy", "vertexCx", "vertexCy",
     "startR", "startG", "startB", "startA", "startZ",
     "dRdX", "dGdX", "dBdX", "dAdX", "dZdX",
     "dRdY", "dGdY", "dBdY", "dAdY", "dZdY",
     "startS", "startT", "startW",
     "dSdX", "dTdX", "dWdX", "dSdY", "dTdY", "dWdY"}

\* memset(&rush->triangle, 0, sizeof(rush->triangle))
ZeroTriangle == [f \in TriangleFields |-> ZeroW]

\* the four defaults of fbijr_init[0..3]
FbijrInitDefaults == <<W(61953), W(25165824), W(462125), W(1574400)>>

\* rush.log: the calls made and packets executed by the entry point running
Emit(r, e) == [r EXCEPT !.log = Append(@, e)]

\* the structure without the log
State(r) == [r EXCEPT !.log = <<>>]

\* voodoo_rush_init(at3d_priv, puma_mode_8mb): calloc, then the defaults
voodoo_rush_init(puma_mode_8mb) ==
    [ puma_fb             |-> EmptyMem,
      puma_fb_size        |-> IF puma_mode_8mb = 1 THEN SST96_PUMA_FB_SIZE
                              ELSE SST96_PUMA_FB_SIZE_4MB,
      puma_tex            |-> EmptyMem,
      puma_tex_size       |-> IF puma_mode_8mb = 1 THEN SST96_PUMA_TEX_SIZE
                              ELSE SST96_PUMA_TEX_SIZE_4MB,
      regs                |-> [i \in {} |-> ZeroW],
      cmdfifo_top_page    |-> 0,
      cmdfifo_bottom_page |-> 0,
      cmdfifo_entry_count |-> 0,
      cmdfifo_read_ptr    |-> 0,
      cmdfifo_threshold   |-> 0,
      cmdfifo_enabled     |-> 0,
      fbijr_init          |-> FbijrInitDefaults \o <<ZeroW, ZeroW>>,
      fbijr_version       |-> W(66049),
      status              |-> ZeroW,
      triangle            |-> ZeroTriangle,
      fbz_color_path      |-> ZeroW,
      fog_mode            |-> ZeroW,
      alpha_mode          |-> ZeroW,
      fbz_mode            |-> ZeroW,
      stipple             |-> ZeroW,
      color0              |-> ZeroW,
      color1              |-> ZeroW,
      fog_color           |-> ZeroW,
      za_color            |-> ZeroW,
      chroma_key          |-> ZeroW,
      chroma_range        |-> ZeroW,
      col_buffer_setup    |-> ZeroW,
      aux_buffer_setup    |-> ZeroW,
      clip_left_right     |-> <<ZeroW, ZeroW>>,
      clip_top_bottom     |-> <<ZeroW, ZeroW>>,
      texture_mode        |-> ZeroW,
      tlod                |-> ZeroW,
      tdetail             |-> ZeroW,
      tex_base_addr       |-> <<ZeroW, ZeroW, ZeroW, ZeroW>>,
      pixels_in           |-> 0,
      chroma_fail         |-> 0,
      zfunc_fail          |-> 0,
      afunc_fail          |-> 0,
      pixels_out          |-> 0,
      puma_mode_8mb       |-> puma_mode_8mb,
      puma_req            |-> 0,
      puma_gnt            |-> 0,
      swap_req            |-> 0,
      swap_pending        |-> 0,
      voodoo              |-> [attached |-> FALSE, dual_tmus |-> 0],
      window_x            |-> 0,
      window_y            |-> 0,
      enabled             |-> 1,
      log                 |-> <<>> ]

\* rush->puma_fb_mask = rush->puma_fb_size - 1, a power of two minus one
FbMasked(r, a) == a % r.puma_fb_size

\* rush->regs[reg]
RegRaw(r, reg) == IF reg \in DOMAIN r.regs THEN r.regs[reg] ELSE ZeroW

\* rush->regs[reg] = val
SetReg_Masked24(regs, reg, val) ==
    LET new(i) == IF i = reg THEN Low(val, 24) ELSE regs[i]
    IN [i \in {x \in DOMAIN regs \cup {reg} : new(x) # ZeroW} |-> new(i)]
SetReg(regs, reg, val) ==
    LET new(i) == IF i = reg THEN val ELSE regs[i]
    IN [i \in {x \in DOMAIN regs \cup {reg} : new(x) # ZeroW} |-> new(i)]


-----------------------------------------------------------------------------
(* parameter translation and the command dispatcher *)

\* the word of an integer in the int32_t range
ToW32(n) == IF n >= 0 THEN W(n) ELSE W((n + 1073741824) + 1073741824) \cup {31}

\* (int32_t)(int16_t)(val & 0xffff)
SignExt16(val) == Low(val, 16) \cup (IF 15 \in val THEN 16..31 ELSE {})

\* (int32_t)((val & 0x800000) ? (val | 0xff000000) : (val & 0xffffff))
SignExt24_NoSign(val) == Low(val, 24)
SignExt24(val) == IF 23 \in val THEN val \cup (24..31) ELSE Low(val, 24)

\* params->startR = rush->triangle.startR >> 12 (uint32_t)
ColorStartShift(w) == Shr(w, 12)
\* params->dRdX = rush->triangle.dRdX >> 12 (int32_t)
ColorGradShift_Logical(w) == Shr(w, 12)
ColorGradShift(w) == Asr(w, 12)

\* sst96_to_voodoo_params: the voodoo_params_t block (fogTable, which no
\* register write reaches, stays the zero table and is not carried)
sst96_to_voodoo_params(r) ==
    LET t   == r.triangle
        tmu == [startS |-> t.startS, startT |-> t.startT, startW |-> t.startW,
                dSdX |-> t.dSdX, dTdX |-> t.dTdX, dWdX |-> t.dWdX,
                dSdY |-> t.dSdY, dTdY |-> t.dTdY, dWdY |-> t.dWdY]
        win == r.window_x # 0 \/ r.window_y # 0
        vx(v) == IF win THEN ToW32(Signed(v) + r.window_x * 16) ELSE v
        vy(v) == IF win THEN ToW32(Signed(v) + r.window_y * 16) ELSE v
    IN [ vertexAx |-> vx(t.vertexAx), vertexAy |-> vy(t.vertexAy),
         vertexBx |-> vx(t.vertexBx), vertexBy |-> vy(t.vertexBy),
         vertexCx |-> vx(t.vertexCx), vertexCy |-> vy(t.vertexCy),
         startR |-> ColorStartShift(t.startR), startG |-> ColorStartShift(t.startG),
         startB |-> ColorStartShift(t.startB), startA |-> ColorStartShift(t.startA),
         startZ |-> ColorStartShift(t.startZ),
         dRdX |-> ColorGradShift(t.dRdX), dGdX |-> ColorGradShift(t.dGdX),
         dBdX |-> ColorGradShift(t.dBdX), dAdX |-> ColorGradShift(t.dAdX),
         dZdX |-> ColorGradShift(t.dZdX),
         dRdY |-> ColorGradShift(t.dRdY), dGdY |-> ColorGradShift(t.dGdY),
         dBdY |-> ColorGradShift(t.dBdY), dAdY |-> ColorGradShift(t.dAdY),
         dZdY |-> ColorGradShift(t.dZdY),
         tmu |-> <<tmu, tmu>>,
         fbzColorPath |-> r.fbz_color_path, fogMode |-> r.fog_mode,
         alphaMode |-> r.alpha_mode, fbzMode |-> r.fbz_mode,
         stipple |-> r.stipple, color0 |-> r.color0, color1 |-> r.color1,
         fogColor |-> [r |-> Field(r.fog_color, 0, 8), g |-> Field(r.fog_color, 8, 8),
                       b |-> Field(r.fog_color, 16, 8)],
         zaColor |-> r.za_color, chromaKey |-> r.chroma_key,
         clipLeft  |-> Field(r.clip_left_right[1], 0, 11),
         clipRight |-> Field(r.clip_left_right[1], 16, 11),
         clipLowY  |-> Field(r.clip_top_bottom[1], 0, 11),
         clipHighY |-> Field(r.clip_top_bottom[1], 16, 11),
         draw_offset |-> Field(r.col_buffer_setup, 0, 22),
         aux_offset  |-> Field(r.aux_buffer_setup, 0, 22),
         textureMode |-> <<r.texture_mode, r.texture_mode>>,
         tLOD |-> <<r.tlod, r.tlod>>,
         texBaseAddr  |-> <<r.tex_base_addr[1], r.tex_base_addr[2]>>,
         texBaseAddr1 |-> <<r.tex_base_addr[2], r.tex_base_addr[2]>> ]

\* voodoo_rush_load_texture: copies into the rendering engine's texture
\* memory and flushes its cache when tex_base < puma_tex_size
voodoo_rush_load_texture(r, tmu) ==
    LET tex_addr == Val(r.tex_base_addr[1])
        tex_base == (IF r.puma_mode_8mb = 1 THEN SST96_PUMA_TEX_START
                     ELSE SST96_PUMA_TEX_START_4MB) + tex_addr * 4096
    IN IF tex_base < r.puma_tex_size
       THEN Emit(r, [ev |-> "load_texture", tmu |-> tmu, tex_addr |-> tex_addr])
       ELSE r

\* voodoo_rush_render_triangle
voodoo_rush_render_triangle_IgnoresEnabled(r) ==
    IF ~r.voodoo.attached THEN r
    ELSE [Emit(r, [ev |-> "queue_triangle", params |-> sst96_to_voodoo_params(r)])
             EXCEPT !.pixels_in = @ + 1]
voodoo_rush_render_triangle(r) ==
    IF ~r.voodoo.attached \/ r.enabled = 0 THEN r
    ELSE LET r1 == IF FBZCP_TEXTURE_ENABLED_BIT \in r.fbz_color_path
                   THEN LET r0 == voodoo_rush_load_texture(r, 0)
                        IN IF r.voodoo.dual_tmus = 1
                           THEN voodoo_rush_load_texture(r0, 1) ELSE r0
                   ELSE r
             r2 == Emit(r1, [ev |-> "queue_triangle",
                             params |-> sst96_to_voodoo_params(r1)])
         IN [r2 EXCEPT !.pixels_in = @ + 1]

\* voodoo_rush_swap_buffers
voodoo_rush_swap_buffers(r) ==
    IF r.swap_req = 0 THEN r
    ELSE Emit([r EXCEPT !.swap_req = 0], [ev |-> "swap"])

\* voodoo_rush_vsync_callback
voodoo_rush_vsync_callback_NoEnableCheck(r) ==
    IF r.swap_pending > 0 /\ r.swap_req # 0
    THEN LET r1 == [r EXCEPT !.swap_pending = @ - 1]
         IN IF r1.swap_pending = 0 THEN voodoo_rush_swap_buffers(r1) ELSE r1
    ELSE r
voodoo_rush_vsync_callback(r) ==
    IF r.enabled = 0 THEN r
    ELSE IF r.swap_pending > 0 /\ r.swap_req # 0
         THEN LET r1 == [r EXCEPT !.swap_pending = @ - 1]
              IN IF r1.swap_pending = 0 THEN voodoo_rush_swap_buffers(r1) ELSE r1
         ELSE r

-----------------------------------------------------------------------------
(* fast fill *)

\* fill_color: ((c >> 19) & 0x1f) | ((c >> 10) & 0x3f) << 5 | ((c >> 3) & 0x1f) << 11
FillColor_RedAt16(color32) ==
    Field(color32, 16, 5) \cup Shl(Field(color32, 10, 6), 5)
        \cup Shl(Field(color32, 3, 5), 11)
FillColor(color32) ==
    Field(color32, 19, 5) \cup Shl(Field(color32, 10, 6), 5)
        \cup Shl(Field(color32, 3, 5), 11)

\* fill_color_buf = !!(rush->fbz_mode & FBZ_RGB_WMASK)
FillColorBuf_Always(fbz_mode) == TRUE
FillColorBuf(fbz_mode) == FBZ_RGB_WMASK_BIT \in fbz_mode
\* fill_depth_buf = !!(rush->fbz_mode & FBZ_DEPTH_WMASK)
FillDepthBuf(fbz_mode) == FBZ_DEPTH_WMASK_BIT \in fbz_mode

\* the locals of voodoo_rush_fastfill
FastfillLocals(r) ==
    [ col_base    |-> Val(Field(r.col_buffer_setup, 0, 22)),
      aux_base    |-> Val(Field(r.aux_buffer_setup, 0, 22)),
      col_stride  |-> Val(Field(r.col_buffer_setup, 22, 9)) * 4,
      aux_stride  |-> Val(Field(r.aux_buffer_setup, 22, 9)) * 4,
      clip_left   |-> Val(Field(r.clip_left_right[1], 0, 11)),
      clip_right  |-> Val(Field(r.clip_left_right[1], 16, 11)),
      clip_top    |-> Val(Field(r.clip_top_bottom[1], 0, 11)),
      clip_bottom |-> Val(Field(r.clip_top_bottom[1], 16, 11)),
      fill_color  |-> FillColor(r.color0),
      y_flip      |-> 17 \in r.fbz_mode,
      fill_color_buf |-> FillColorBuf(r.fbz_mode),
      fill_depth_buf |-> FillDepthBuf(r.fbz_mode),
      za_color    |-> r.za_color,
      fb_size     |-> r.puma_fb_size ]

\* the body of the inner loop for pixel (x, y)
FastfillPixel(fb, p, x, y) ==
    LET y_offset     == IF p.y_flip THEN p.clip_bottom - 1 - y ELSE y
        pixel_offset == p.col_base + y_offset * p.col_stride + x * 2
        depth_offset == p.aux_base + y_offset * p.aux_stride + x * 2
        fb1 == IF p.fill_color_buf
               THEN Wr16(fb, pixel_offset % p.fb_size, p.fill_color) ELSE fb
    IN IF pixel_offset >= p.fb_size THEN fb
       ELSE IF p.fill_depth_buf /\ depth_offset < p.fb_size
            THEN Wr16(fb1, depth_offset % p.fb_size, Low(p.za_color, 16))
            ELSE fb1

\* for (y = clip_top; y < clip_bottom; y++) for (x = clip_left; x < clip_right; x++)
RECURSIVE FastfillLoop(_, _, _, _)
FastfillLoop(fb, p, x, y) ==
    IF y >= p.clip_bottom THEN fb
    ELSE IF x >= p.clip_right THEN FastfillLoop(fb, p, p.clip_left, y + 1)
    ELSE FastfillLoop(FastfillPixel(fb, p, x, y), p, x + 1, y)

\* voodoo_rush_fastfill
voodoo_rush_fastfill(r) ==
    IF r.enabled = 0 THEN r
    ELSE LET p == FastfillLocals(r)
         IN Emit([r EXCEPT !.puma_fb = FastfillLoop(@, p, p.clip_left, p.clip_top)],
                 [ev |-> "fastfill"])

-----------------------------------------------------------------------------
(* register file *)

\* if (!rush || reg >= 256) return
RegOutOfRange_Above256(reg) == reg > 256
RegOutOfRange(reg) == reg >= 256

\* the uint32_t of a counter: counter & 0xffffff
Counter24(n) == W(n % 16777216)

\* voodoo_rush_reg_read
voodoo_rush_reg_read_RawStatus(r, reg) ==
    IF RegOutOfRange(reg) THEN ZeroW
    ELSE CASE reg = SST96_STATUS -> RegRaw(r, reg)
           [] reg = SST96_FBIJR_VERSION -> r.fbijr_version
           [] reg = SST96_FBI_PIXELS_IN -> Counter24(r.pixels_in)
           [] reg = SST96_FBI_CHROMA_FAIL -> Counter24(r.chroma_fail)
           [] reg = SST96_FBI_ZFUNC_FAIL -> Counter24(r.zfunc_fail)
           [] reg = SST96_FBI_AFUNC_FAIL -> Counter24(r.afunc_fail)
           [] reg = SST96_FBI_PIXELS_OUT -> Counter24(r.pixels_out)
           [] reg \in SST96_FBIJR_INIT0..SST96_FBIJR_INIT5 ->
                  r.fbijr_init[reg - SST96_FBIJR_INIT0 + 1]
           [] reg = SST96_COL_BUFFER_SETUP -> r.col_buffer_setup
           [] reg = SST96_AUX_BUFFER_SETUP -> r.aux_buffer_setup
           [] reg = SST96_CLIP_LEFT_RIGHT0 -> r.clip_left_right[1]
           [] reg = SST96_CLIP_TOP_BOTTOM0 -> r.clip_top_bottom[1]
           [] reg = SST96_CLIP_LEFT_RIGHT1 -> r.clip_left_right[2]
           [] reg = SST96_CLIP_TOP_BOTTOM1 -> r.clip_top_bottom[2]
           [] OTHER -> RegRaw(r, reg)
voodoo_rush_reg_read(r, reg) ==
    IF RegOutOfRange(reg) THEN ZeroW
    ELSE CASE reg = SST96_STATUS -> r.status
           [] reg = SST96_FBIJR_VERSION -> r.fbijr_version
           [] reg = SST96_FBI_PIXELS_IN -> Counter24(r.pixels_in)
           [] reg = SST96_FBI_CHROMA_FAIL -> Counter24(r.chroma_fail)
           [] reg = SST96_FBI_ZFUNC_FAIL -> Counter24(r.zfunc_fail)
           [] reg = SST96_FBI_AFUNC_FAIL -> Counter24(r.afunc_fail)
           [] reg = SST96_FBI_PIXELS_OUT -> Counter24(r.pixels_out)
           [] reg \in SST96_FBIJR_INIT0..SST96_FBIJR_INIT5 ->
                  r.fbijr_init[reg - SST96_FBIJR_INIT0 + 1]
           [] reg = SST96_COL_BUFFER_SETUP -> r.col_buffer_setup
           [] reg = SST96_AUX_BUFFER_SETUP -> r.aux_buffer_setup
           [] reg = SST96_CLIP_LEFT_RIGHT0 -> r.clip_left_right[1]
           [] reg = SST96_CLIP_TOP_BOTTOM0 -> r.clip_top_bottom[1]
           [] reg = SST96_CLIP_LEFT_RIGHT1 -> r.clip_left_right[2]
           [] reg = SST96_CLIP_TOP_BOTTOM1 -> r.clip_top_bottom[2]
           [] OTHER -> RegRaw(r, reg)

\* case SST96_SWAPBUFFER_CMD
SwapBufferCmd_NoFloor(r) == [r EXCEPT !.swap_req = 1, !.swap_pending = @ - 1]
SwapBufferCmd(r) ==
    [r EXCEPT !.swap_req = 1,
              !.swap_pending = IF @ > 0 THEN @ - 1 ELSE @]

\* case SST96_SWAPPEND_CMD: swap_pending++, clamped to 7
SwapPendCmd_NoClamp(r) == [r EXCEPT !.swap_pending = @ + 1]
SwapPendCmd(r) ==
    [r EXCEPT !.swap_pending = IF @ + 1 > 7 THEN 7 ELSE @ + 1]

\* case SST96_FBIJR_INIT3: the CMDFIFO setup decoded from val
Init3Decode_TopAt10(r, val) ==
    [r EXCEPT !.cmdfifo_enabled = IF 0 \in val THEN 1 ELSE 0,
              !.cmdfifo_bottom_page = Val(Field(val, 1, 10)),
              !.cmdfifo_top_page = Val(Field(val, 10, 10)),
              !.cmdfifo_threshold = Val(Field(val, 21, 10))]
Init3Decode(r, val) ==
    [r EXCEPT !.cmdfifo_enabled = IF 0 \in val THEN 1 ELSE 0,
              !.cmdfifo_bottom_page = Val(Field(val, 1, 10)),
              !.cmdfifo_top_page = Val(Field(val, 11, 10)),
              !.cmdfifo_threshold = Val(Field(val, 21, 10))]

\* the triangle field a register number selects, and how val is stored in it
TriangleReg ==
    [x \in {} |-> ""]
    @@ (SST96_VERTEX_AX :> "vertexAx") @@ (SST96_VERTEX_AY :> "vertexAy")
    @@ (SST96_VERTEX_BX :> "vertexBx") @@ (SST96_VERTEX_BY :> "vertexBy")
    @@ (SST96_VERTEX_CX :> "vertexCx") @@ (SST96_VERTEX_CY :> "vertexCy")
    @@ (SST96_START_R :> "startR") @@ (SST96_START_G :> "startG")
    @@ (SST96_START_B :> "startB") @@ (SST96_START_A :> "startA")
    @@ (SST96_START_Z :> "startZ") @@ (SST96_START_S :> "startS")
    @@ (SST96_START_T :> "startT") @@ (SST96_START_W :> "startW")
    @@ (SST96_DRDX :> "dRdX") @@ (SST96_DGDX :> "dGdX")
    @@ (SST96_DBDX :> "dBdX") @@ (SST96_DADX :> "dAdX")
    @@ (SST96_DZDX :> "dZdX") @@ (SST96_DSDX :> "dSdX")
    @@ (SST96_DTDX :> "dTdX") @@ (SST96_DWDX :> "dWdX")
    @@ (SST96_DRDY :> "dRdY") @@ (SST96_DGDY :> "dGdY")
    @@ (SST96_DBDY :> "dBdY") @@ (SST96_DADY :> "dAdY")
    @@ (SST96_DZDY :> "dZdY") @@ (SST96_DSDY :> "dSdY")
    @@ (SST96_DTDY :> "dTdY") @@ (SST96_DWDY :> "dWdY")

VertexRegs == SST96_VERTEX_AX..SST96_VERTEX_CY
ColorStartRegs == {SST96_START_R, SST96_START_G, SST96_START_B, SST96_START_A}
ColorGradRegs == {SST96_DRDX, SST96_DGDX, SST96_DBDX, SST96_DADX,
                  SST96_DRDY, SST96_DGDY, SST96_DBDY, SST96_DADY}

TriangleStore(reg, val) ==
    CASE reg \in VertexRegs -> SignExt16(val)
      [] reg \in ColorStartRegs -> Low(val, 24)
      [] reg \in ColorGradRegs -> SignExt24(val)
      [] OTHER -> val

\* voodoo_rush_reg_write.  The switch names SST96_FBIJR_INIT4 and
\* SST96_FBIJR_INIT5 twice; control reaches the first label of a value, the
\* group that stores fbijr_init[], so the later two cases (entry count and
\* read pointer) are never executed.
voodoo_rush_reg_write(r, reg, val) ==
    IF RegOutOfRange(reg) THEN r
    ELSE
    LET r1 == Emit([r EXCEPT !.regs = SetReg(@, reg, val)],
                   [ev |-> "reg_write", reg |-> reg, val |-> val])
    IN CASE reg \in DOMAIN TriangleReg ->
              [r1 EXCEPT !.triangle[TriangleReg[reg]] = TriangleStore(reg, val)]
         [] reg = SST96_TRIANGLE_CMD -> voodoo_rush_render_triangle(r1)
         [] reg = SST96_NOP_CMD -> r1
         [] reg = SST96_FASTFILL_CMD -> voodoo_rush_fastfill(r1)
         [] reg = SST96_SWAPBUFFER_CMD -> SwapBufferCmd(r1)
         [] reg = SST96_SWAPPEND_CMD -> SwapPendCmd(r1)
         [] reg = SST96_FBZ_COLOR_PATH -> [r1 EXCEPT !.fbz_color_path = Low(val, 28)]
         [] reg = SST96_FOG_MODE -> [r1 EXCEPT !.fog_mode = Low(val, 6)]
         [] reg = SST96_ALPHA_MODE -> [r1 EXCEPT !.alpha_mode = val]
         [] reg = SST96_FBZ_MODE -> [r1 EXCEPT !.fbz_mode = Low(val, 20)]
         [] reg = SST96_STIPPLE -> [r1 EXCEPT !.stipple = val]
         [] reg = SST96_COLOR0 -> [r1 EXCEPT !.color0 = val]
         [] reg = SST96_COLOR1 -> [r1 EXCEPT !.color1 = val]
         [] reg = SST96_FOG_COLOR -> [r1 EXCEPT !.fog_color = Low(val, 24)]
         [] reg = SST96_ZA_COLOR -> [r1 EXCEPT !.za_color = val]
         [] reg = SST96_CHROMA_KEY -> [r1 EXCEPT !.chroma_key = Low(val, 24)]
         [] reg = SST96_CHROMA_RANGE -> [r1 EXCEPT !.chroma_range = Low(val, 29)]
         [] reg = SST96_COL_BUFFER_SETUP -> [r1 EXCEPT !.col_buffer_setup = val]
         [] reg = SST96_AUX_BUFFER_SETUP -> [r1 EXCEPT !.aux_buffer_setup = Low(val, 31)]
         [] reg = SST96_CLIP_LEFT_RIGHT0 -> [r1 EXCEPT !.clip_left_right[1] = val]
         [] reg = SST96_CLIP_TOP_BOTTOM0 -> [r1 EXCEPT !.clip_top_bottom[1] = val]
         [] reg = SST96_CLIP_LEFT_RIGHT1 -> [r1 EXCEPT !.clip_left_right[2] = val]
         [] reg = SST96_CLIP_TOP_BOTTOM1 -> [r1 EXCEPT !.clip_top_bottom[2] = val]
         [] reg \in SST96_FBIJR_INIT0..SST96_FBIJR_INIT5 ->
              LET r2 == [r1 EXCEPT !.fbijr_init[reg - SST96_FBIJR_INIT0 + 1] = val]
              IN IF reg = SST96_FBIJR_INIT3 THEN Init3Decode(r2, val) ELSE r2
         [] reg = SST96_TEXTURE_MODE -> [r1 EXCEPT !.texture_mode = Low(val, 31)]
         [] reg = SST96_TLOD -> [r1 EXCEPT !.tlod = Low(val, 31)]
         [] reg = SST96_TDETAIL -> [r1 EXCEPT !.tdetail = Low(val, 16)]
         [] reg = SST96_TEX_BASE_ADDR -> [r1 EXCEPT !.tex_base_addr[1] = Low(val, 19)]
         [] reg = SST96_TEX_BASE_ADDR1 -> [r1 EXCEPT !.tex_base_addr[2] = Low(val, 19)]
         [] reg = SST96_TEX_BASE_ADDR2 -> [r1 EXCEPT !.tex_base_addr[3] = Low(val, 19)]
         [] reg = SST96_TEX_BASE_ADDR38 -> [r1 EXCEPT !.tex_base_addr[4] = Low(val, 19)]
         [] reg = SST96_CMDFIFO_BASE -> [r1 EXCEPT !.cmdfifo_bottom_page = Val(Low(val, 16))]
         [] reg = SST96_CMDFIFO_TOP -> [r1 EXCEPT !.cmdfifo_top_page = Val(Low(val, 16))]
         [] reg = SST96_CMDFIFO_BOTTOM -> [r1 EXCEPT !.cmdfifo_bottom_page = Val(Low(val, 16))]
         [] reg = SST96_CMDFIFO_RDPTR -> [r1 EXCEPT !.cmdfifo_read_ptr = Val(Low(val, 16))]
         [] reg = SST96_CMDFIFO_THRESHOLD -> [r1 EXCEPT !.cmdfifo_threshold = Val(Low(val, 16))]
         [] reg = SST96_CMDFIFO_ENABLE ->
              [r1 EXCEPT !.cmdfifo_enabled = IF 0 \in val THEN 1 ELSE 0]
         [] OTHER -> r1

-----------------------------------------------------------------------------
(* PUMA address decode *)

RegStart(r) == IF r.puma_mode_8mb = 1 THEN SST96_PUMA_REG_START
               ELSE SST96_PUMA_REG_START_4MB
RegSize(r) == IF r.puma_mode_8mb = 1 THEN SST96_PUMA_REG_SIZE
              ELSE SST96_PUMA_REG_SIZE_4MB
TexStart_Always8MB(r) == SST96_PUMA_TEX_START
TexStart(r) == IF r.puma_mode_8mb = 1 THEN SST96_PUMA_TEX_START
               ELSE SST96_PUMA_TEX_START_4MB

\* puma_addr_to_reg, for addr >= reg_base: ((addr - reg_base) >> 12) & 0xff
puma_addr_to_reg_Shift10(addr, reg_base) == ((addr - reg_base) \div 1024) % 256
puma_addr_to_reg(addr, reg_base) == ((addr - reg_base) \div 4096) % 256

-----------------------------------------------------------------------------
(* CMDFIFO engine *)

\* (uint32_t)(cmdfifo_top - cmdfifo_base) >> 3, both multiples of 4096 below 2^28
CmdfifoSize(base, top) ==
    IF top >= base THEN (top - base) \div 8
    ELSE 536870912 - ((base - top) \div 8)

\* the locals voodoo_rush_process_cmdfifo computes before its loop
CmdfifoLocals_NoThreshold(r) ==
    [ base |-> r.cmdfifo_bottom_page * 4096,
      top  |-> r.cmdfifo_top_page * 4096,
      size |-> CmdfifoSize(r.cmdfifo_bottom_page * 4096, r.cmdfifo_top_page * 4096),
      max_process |-> r.cmdfifo_entry_count ]
CmdfifoLocals(r) ==
    [ base |-> r.cmdfifo_bottom_page * 4096,
      top  |-> r.cmdfifo_top_page * 4096,
      size |-> CmdfifoSize(r.cmdfifo_bottom_page * 4096, r.cmdfifo_top_page * 4096),
      max_process |-> IF r.cmdfifo_threshold # 0 THEN r.cmdfifo_threshold
                      ELSE r.cmdfifo_entry_count ]

\* cmdfifo_base + ((read_ptr << 3) & (cmdfifo_size << 3)); read_ptr is below
\* 2^19, so the value is cmdfifo_base + ((read_ptr & cmdfifo_size) << 3)
ReadAddr_Modulo(c, read_ptr) == c.base + (read_ptr % c.size) * 8
ReadAddr(c, read_ptr) == c.base + BitAnd(read_ptr, c.size) * 8

\* *(uint32_t *) &rush->puma_fb[a & rush->puma_fb_mask], read by the drain
FifoRead(r, a) == Rd32(r.puma_fb, FbMasked(r, a))
NoteRead(r, a) == Emit(r, [ev |-> "fifo_read", addr |-> a])

\* the register writes logged from position n + 1 on
WritesSince(r, n) ==
    LET tail == SubSeq(r.log, n + 1, Len(r.log))
        ws == SelectSeq(tail, LAMBDA e : e.ev = "reg_write")
    IN [k \in 1..Len(ws) |-> <<ws[k].reg, ws[k].val>>]

\* the end of one loop iteration that executed a packet: entry_count--, and
\* the packet is logged
PacketDone(r, r0, kind, hdr, data, read_addr, size) ==
    Emit([r EXCEPT !.cmdfifo_entry_count = @ - 1],
         [ev |-> "packet", kind |-> kind, hdr |-> hdr, data |-> data,
          read_addr |-> read_addr, size |-> size,
          rp_before |-> r0.cmdfifo_read_ptr, rp_after |-> r.cmdfifo_read_ptr,
          count_before |-> r0.cmdfifo_entry_count,
          count_after |-> r.cmdfifo_entry_count - 1,
          fb_before |-> r0.puma_fb,
          writes |-> WritesSince(r, Len(r0.log))])

\* NOP packet: cmdfifo_read_ptr = (cmdfifo_read_ptr + 2) % cmdfifo_size
NopPacket_NoWrap(r, size) == [r EXCEPT !.cmdfifo_read_ptr = @ + 2]
NopPacket_Advance1(r, size) == [r EXCEPT !.cmdfifo_read_ptr = (@ + 1) % size]
NopPacket(r, size) == [r EXCEPT !.cmdfifo_read_ptr = (@ + 2) % size]

\* the register write of a packet word: reg_addr is validated against the
\* register window and decoded by puma_addr_to_reg
PacketRegWrite_NoWindowCheck(r, reg_addr, val) ==
    voodoo_rush_reg_write(r, puma_addr_to_reg(reg_addr + RegStart(r), RegStart(r)), val)
PacketRegWrite(r, reg_addr, val) ==
    LET puma_reg_addr == reg_addr + RegStart(r)
    IN IF puma_reg_addr >= RegStart(r) /\ puma_reg_addr < RegStart(r) + RegSize(r)
       THEN voodoo_rush_reg_write(r, puma_addr_to_reg(puma_reg_addr, RegStart(r)), val)
       ELSE r

\* for (i = 0; i < 32; i++) if (mask & (1 << i)) { read a word, write it }
RECURSIVE GroupedLoop(_, _, _, _, _)
GroupedLoop(r, base_addr, mask, i, read_addr) ==
    IF i >= 32 THEN r
    ELSE IF i \in mask
         THEN LET reg_addr == (base_addr + i) * 4
                  reg_data == FifoRead(r, read_addr)
                  r1 == PacketRegWrite(NoteRead(r, read_addr), reg_addr, reg_data)
              IN GroupedLoop(r1, base_addr, mask, i + 1, read_addr + 4)
         ELSE GroupedLoop(r, base_addr, mask, i + 1, read_addr)

\* if (num_writes == 0 || num_writes > 32): the mask of a grouped packet is invalid
BadMask_Never(num_writes) == FALSE
BadMask(num_writes) == num_writes = 0 \/ num_writes > 32

\* one packet at read_addr: NOP, grouped (bit 31 of the header) or singleton
ExecPacket(r, c, read_addr) ==
    LET addr_data == FifoRead(r, read_addr)
        data      == FifoRead(r, read_addr + 4)
        r0        == NoteRead(NoteRead(r, read_addr), read_addr + 4)
        num_writes == Cardinality(data)
        base_addr == Val(Field(addr_data, 2, 21))
    IN IF addr_data = ZeroW /\ data = ZeroW
       THEN PacketDone(NopPacket(r0, c.size), r, "nop", addr_data, data, read_addr, c.size)
       ELSE IF 31 \in addr_data
       THEN IF BadMask(num_writes)
            THEN PacketDone([r0 EXCEPT !.cmdfifo_read_ptr = (@ + 2) % c.size],
                            r, "badmask", addr_data, data, read_addr, c.size)
            ELSE LET r1 == GroupedLoop(r0, base_addr, data, 0, read_addr + 8)
                 IN PacketDone([r1 EXCEPT !.cmdfifo_read_ptr =
                                              (@ + 1 + num_writes) % c.size],
                               r, "grouped", addr_data, data, read_addr, c.size)
       ELSE LET r1 == PacketRegWrite(r0, base_addr, data)
            IN PacketDone([r1 EXCEPT !.cmdfifo_read_ptr = (@ + 2) % c.size],
                          r, "single", addr_data, data, read_addr, c.size)

\* if (read_addr < cmdfifo_base || read_addr + 8 > cmdfifo_top) break
ReadOutOfBounds_Never(c, read_addr) == FALSE
ReadOutOfBounds(c, read_addr) == read_addr < c.base \/ read_addr + 8 > c.top

\* while (rush->cmdfifo_entry_count > 0 && processed < max_process)
RECURSIVE ProcessLoop(_, _, _)
ProcessLoop(r, c, processed) ==
    IF ~(r.cmdfifo_entry_count > 0 /\ processed < c.max_process) THEN r
    ELSE LET read_addr == ReadAddr(c, r.cmdfifo_read_ptr)
         IN IF ReadOutOfBounds(c, read_addr)
            THEN Emit(r, [ev |-> "abort", read_addr |-> read_addr])
            ELSE ProcessLoop(ExecPacket(r, c, read_addr), c, processed + 1)

\* voodoo_rush_process_cmdfifo
voodoo_rush_process_cmdfifo_SetsPending(r) ==
    IF r.cmdfifo_enabled = 0 \/ r.cmdfifo_entry_count = 0 THEN r
    ELSE LET r0 == Emit(r, [ev |-> "drain"])
             r1 == ProcessLoop(r0, CmdfifoLocals(r), 0)
         IN IF r1.cmdfifo_entry_count < r1.cmdfifo_threshold
            THEN [r1 EXCEPT !.status = @ \cup {16}]
            ELSE r1
voodoo_rush_process_cmdfifo(r) ==
    IF r.cmdfifo_enabled = 0 \/ r.cmdfifo_entry_count = 0 THEN r
    ELSE LET r0 == Emit(r, [ev |-> "drain"])
             r1 == ProcessLoop(r0, CmdfifoLocals(r), 0)
         IN IF r1.cmdfifo_entry_count < r1.cmdfifo_threshold
            THEN [r1 EXCEPT !.status = @ \ {16}]
            ELSE r1

\* if (addr < cmdfifo_base || addr >= cmdfifo_top) return
CmdfifoOutOfBounds_TopIncluded(addr, base, top) == addr < base \/ addr > top
CmdfifoOutOfBounds(addr, base, top) == addr < base \/ addr >= top

\* (offset & 7) == 0: the first word of a packet
CmdfifoFirstWord_Mask5(offset) == offset % 2 = 0 /\ (offset \div 4) % 2 = 0
CmdfifoFirstWord(offset) == offset % 8 = 0

\* (offset & 7) == 4: the second word of a packet
CmdfifoSecondWord(offset) == offset % 8 = 4

\* voodoo_rush_cmdfifo_write
voodoo_rush_cmdfifo_write(r, addr, val) ==
    IF r.cmdfifo_enabled = 0 THEN r
    ELSE LET cmdfifo_base == r.cmdfifo_bottom_page * 4096
             cmdfifo_top  == r.cmdfifo_top_page * 4096
             offset == addr - cmdfifo_base
             stored == [r EXCEPT !.puma_fb = Wr32(@, FbMasked(r, addr), val)]
         IN IF CmdfifoOutOfBounds(addr, cmdfifo_base, cmdfifo_top) THEN r
            ELSE IF CmdfifoFirstWord(offset) THEN stored
            ELSE IF CmdfifoSecondWord(offset)
                 THEN LET r1 == [stored EXCEPT !.cmdfifo_entry_count = @ + 1]
                      IN IF r1.cmdfifo_entry_count > 0
                         THEN voodoo_rush_process_cmdfifo(r1) ELSE r1
            ELSE r

-----------------------------------------------------------------------------
(* PUMA and THP access, reset *)

\* (int32_t)(ret << 8) >> 8
SignExtRead24(ret) == Low(ret, 24) \cup (IF 23 \in ret THEN 24..31 ELSE {})

\* a & ~3
Align4(a) == a - (a % 4)

\* voodoo_rush_puma_read: the value returned (the call changes nothing)
voodoo_rush_puma_read(r, addr) ==
    IF r.enabled = 0 THEN ZeroW
    ELSE LET fb_end    == r.puma_fb_size
             reg_start == RegStart(r)
             reg_end   == RegStart(r) + RegSize(r)
             tex_start == TexStart(r)
             tex_end   == TexStart(r) + r.puma_tex_size
         IN IF addr < fb_end THEN Rd32(r.puma_fb, FbMasked(r, addr))
            ELSE IF addr >= reg_start /\ addr < reg_end
            THEN LET reg == puma_addr_to_reg(addr, reg_start)
                     ret == voodoo_rush_reg_read(r, reg)
                 IN IF reg >= SST96_DRDX /\ reg <= SST96_DADY
                    THEN SignExtRead24(ret) ELSE ret
            ELSE IF addr >= tex_start /\ addr < tex_end
            THEN LET tex_offset == addr - tex_start
                 IN IF tex_offset < r.puma_tex_size
                    THEN Rd32(r.puma_tex, Align4(tex_offset)) ELSE ZeroW
            ELSE ZeroW

\* flush_texture_cache(rush->voodoo, tex_addr << 12, tmu), once per TMU
FlushTexture(r, tex_offset) ==
    IF ~r.voodoo.attached THEN r
    ELSE LET page == (tex_offset \div 4096) * 4096
             r1 == Emit(r, [ev |-> "flush_texture_cache", addr |-> page, tmu |-> 0])
         IN IF r.voodoo.dual_tmus = 1
            THEN Emit(r1, [ev |-> "flush_texture_cache", addr |-> page, tmu |-> 1])
            ELSE r1

\* voodoo_rush_puma_write
voodoo_rush_puma_write(r, addr, val) ==
    IF r.enabled = 0 THEN r
    ELSE LET fb_end    == r.puma_fb_size
             reg_start == RegStart(r)
             reg_end   == RegStart(r) + RegSize(r)
             tex_start == TexStart(r)
             tex_end   == TexStart(r) + r.puma_tex_size
             cmdfifo_base == r.cmdfifo_bottom_page * 4096
             cmdfifo_top  == r.cmdfifo_top_page * 4096
         IN IF addr < fb_end
            THEN IF r.cmdfifo_enabled # 0 /\ addr >= cmdfifo_base /\ addr < cmdfifo_top
                 THEN voodoo_rush_cmdfifo_write(r, addr, val)
                 ELSE [r EXCEPT !.puma_fb = Wr32(@, Align4(FbMasked(r, addr)), val)]
            ELSE IF addr >= reg_start /\ addr < reg_end
            THEN voodoo_rush_reg_write(r, puma_addr_to_reg(addr, reg_start), val)
            ELSE IF addr >= tex_start /\ addr < tex_end
            THEN LET tex_offset == addr - tex_start
                 IN IF tex_offset < r.puma_tex_size
                    THEN FlushTexture([r EXCEPT !.puma_tex =
                                          Wr32(@, Align4(tex_offset), val)], tex_offset)
                    ELSE r
            ELSE r

\* voodoo_rush_thp_write
voodoo_rush_thp_write_FbOnly(r, addr, val) ==
    IF r.enabled = 0 \/ ~(addr < r.puma_fb_size) THEN r
    ELSE [voodoo_rush_puma_write(r, addr, val) EXCEPT !.puma_req = 1]
voodoo_rush_thp_write(r, addr, val) ==
    IF r.enabled = 0 THEN r
    ELSE LET r1 == voodoo_rush_puma_write(r, addr, val)
         IN IF addr < r1.puma_fb_size THEN [r1 EXCEPT !.puma_req = 1] ELSE r1

\* voodoo_rush_thp_read: the structure after the call (the value returned is
\* that of voodoo_rush_puma_read)
voodoo_rush_thp_read(r, addr) ==
    IF r.enabled = 0 THEN r
    ELSE IF addr < r.puma_fb_size THEN [r EXCEPT !.puma_gnt = 1] ELSE r

\* memset(rush->regs, 0, ...); memset(&rush->triangle, 0, ...)
ResetRegisters_AndMemory(r) ==
    [r EXCEPT !.regs = [i \in {} |-> ZeroW], !.triangle = ZeroTriangle,
              !.puma_fb = EmptyMem, !.puma_tex = EmptyMem]
ResetRegisters(r) ==
    [r EXCEPT !.regs = [i \in {} |-> ZeroW], !.triangle = ZeroTriangle]

\* status, cmdfifo_enabled, cmdfifo_entry_count, cmdfifo_read_ptr,
\* swap_pending and swap_req set to 0
ResetState_KeepsReadPtr(r) ==
    [r EXCEPT !.status = ZeroW, !.cmdfifo_enabled = 0, !.cmdfifo_entry_count = 0,
              !.swap_pending = 0, !.swap_req = 0]
ResetState(r) ==
    [r EXCEPT !.status = ZeroW,
              !.cmdfifo_enabled = 0,
              !.cmdfifo_entry_count = 0,
              !.cmdfifo_read_ptr = 0,
              !.swap_pending = 0,
              !.swap_req = 0]

\* fbijr_init[0..3] set back to their defaults
ResetDefaults(r) == [r EXCEPT !.fbijr_init = FbijrInitDefaults \o SubSeq(@, 5, 6)]

\* voodoo_rush_reset
voodoo_rush_reset(r) == ResetDefaults(ResetState(ResetRegisters(r)))

-----------------------------------------------------------------------------
(* entry points as actions *)

\* bounds of the runs
MaxRep == 10
MaxRegOps == 2
MaxFifoOps == 5
MaxFillOps == 5
MaxSwapCmds == 3
MaxSwapPackets == 4
MaxCmdOps == 5
MaxPumaOps == 3
MaxOffSetup == 4
MaxResetOps == 3
MaxDrainOps == 6
MaxWindowOps == 3
MaxStopOps == 8
MaxThpOps == 4

\* The guest streaming singleton packets into a fresh FIFO.  A stream starts in
\* any state where the CMDFIFO is enabled over a non-empty window with
\* threshold 0, entry count 0 and read pointer 0.  stream.k counts the packets
\* written so far into the consecutive 8-byte slots from the window base
\* (header word to base + 8k, then data word to base + 8k + 4); stream.half
\* says that the header of packet k + 1 is written and its data word is not.
\* Any other call ends the stream.
NoStream == [k |-> -1, half |-> FALSE, hdr |-> ZeroW, data |-> ZeroW]

StreamStart(r) ==
    /\ r.enabled = 1 /\ r.cmdfifo_enabled = 1
    /\ r.cmdfifo_bottom_page < r.cmdfifo_top_page
    /\ r.cmdfifo_threshold = 0 /\ r.cmdfifo_entry_count = 0 /\ r.cmdfifo_read_ptr = 0

FifoWriteOps == {"puma_write", "thp_write", "cmdfifo_write"}

StreamNext(op, a, val, r2) ==
    LET base == rush.cmdfifo_bottom_page * 4096
        fresh == IF StreamStart(r2) THEN [NoStream EXCEPT !.k = 0] ELSE NoStream
    IN IF op \in FifoWriteOps /\ stream.k >= 0
       THEN IF ~stream.half /\ a = base + 8 * stream.k /\ 31 \notin val /\ val # ZeroW
            THEN [stream EXCEPT !.half = TRUE, !.hdr = val]
            ELSE IF stream.half /\ a = base + 8 * stream.k + 4
            THEN [stream EXCEPT !.half = FALSE, !.k = @ + 1, !.data = val]
            ELSE fresh
       ELSE fresh

InitMode(mode) ==
    /\ rush = voodoo_rush_init(mode)
    /\ last = [op |-> "init", a |-> mode, val |-> ZeroW, ret |-> ZeroW, rep |-> 0]
    /\ steps = 0
    /\ stream = NoStream
    /\ at3d = [thp |-> [control |-> ZeroW, address |-> ZeroW, data |-> ZeroW],
               voodoo_rush_enabled |-> 1]

\* voodoo_rush_init in either aperture mode
Init == \E mode \in {0, 1} : InitMode(mode)

\* vid_at3d.c constructs the device in 8MB mode: voodoo_rush_init(at3d, 1)
Init8MB == InitMode(1)

\* an entry point starts with an empty log
Begin(r) == [r EXCEPT !.log = <<>>]

\* the call op(a, val) leaves the structure r2 and the AT3D registers t2 and
\* returns ret; last.rep counts the consecutive calls with the same entry point
\* and arguments, up to MaxRep
CallDev(op, a, val, r2, ret, t2) ==
    /\ rush' = r2
    /\ at3d' = t2
    /\ stream' = StreamNext(op, a, val, r2)
    /\ last' = [op |-> op, a |-> a, val |-> val, ret |-> ret,
                rep |-> IF last.op = op /\ last.a = a /\ last.val = val
                        THEN (IF last.rep < MaxRep THEN last.rep + 1 ELSE MaxRep)
                        ELSE 1]

\* a call of an entry point of the Voodoo Rush itself
Call(op, a, val, r2, ret) == CallDev(op, a, val, r2, ret, at3d)

\* one more call of a run of at most n calls
Tick(n) == steps < n /\ steps' = steps + 1

RegWrite(reg, val) ==
    Call("reg_write", reg, val, voodoo_rush_reg_write(Begin(rush), reg, val), ZeroW)

RegRead(reg) ==
    Call("reg_read", reg, ZeroW, Begin(rush), voodoo_rush_reg_read(rush, reg))

PumaWrite(addr, val) ==
    Call("puma_write", addr, val, voodoo_rush_puma_write(Begin(rush), addr, val), ZeroW)

PumaRead_SetsReq(addr) ==
    Call("puma_read", addr, ZeroW, [Begin(rush) EXCEPT !.puma_req = 1],
         voodoo_rush_puma_read(rush, addr))
PumaRead(addr) ==
    Call("puma_read", addr, ZeroW, Begin(rush), voodoo_rush_puma_read(rush, addr))

ThpWrite(addr, val) ==
    Call("thp_write", addr, val, voodoo_rush_thp_write(Begin(rush), addr, val), ZeroW)

ThpRead(addr) ==
    Call("thp_read", addr, ZeroW, voodoo_rush_thp_read(Begin(rush), addr),
         voodoo_rush_puma_read(rush, addr))

CmdfifoWrite(addr, val) ==
    Call("cmdfifo_write", addr, val,
         voodoo_rush_cmdfifo_write(Begin(rush), addr, val), ZeroW)

ProcessCmdfifo ==
    Call("process_cmdfifo", 0, ZeroW, voodoo_rush_process_cmdfifo(Begin(rush)), ZeroW)

FastFill ==
    Call("fastfill", 0, ZeroW, voodoo_rush_fastfill(Begin(rush)), ZeroW)

RenderTriangle ==
    Call("render_triangle", 0, ZeroW, voodoo_rush_render_triangle(Begin(rush)), ZeroW)

SwapBuffers ==
    Call("swap_buffers", 0, ZeroW, voodoo_rush_swap_buffers(Begin(rush)), ZeroW)

Vsync ==
    Call("vsync", 0, ZeroW, voodoo_rush_vsync_callback(Begin(rush)), ZeroW)

Reset ==
    Call("reset", 0, ZeroW, voodoo_rush_reset(Begin(rush)), ZeroW)

\* vid_at3d.c, THP control byte 0x403: bit 0 enables or disables the device
SetEnabled(e) ==
    CallDev("set_enabled", e, ZeroW, [Begin(rush) EXCEPT !.enabled = e], ZeroW,
            [at3d EXCEPT !.voodoo_rush_enabled = e])

\* rush->voodoo is set by the owner of the rendering engine
AttachVoodoo(dual) ==
    Call("attach_voodoo", dual, ZeroW,
         [Begin(rush) EXCEPT !.voodoo = [attached |-> TRUE, dual_tmus |-> dual]], ZeroW)

-----------------------------------------------------------------------------
(* SpecReg: the register file driven by reg_write, reg_read and reset *)

\* registers whose stored mirror is masked, with the width of the mask
MaskWidth ==
    (SST96_FBZ_COLOR_PATH :> 28) @@ (SST96_FOG_MODE :> 6) @@ (SST96_FBZ_MODE :> 20)
    @@ (SST96_CHROMA_KEY :> 24) @@ (SST96_CHROMA_RANGE :> 29)
    @@ (SST96_AUX_BUFFER_SETUP :> 31)

\* values written to the masked registers: 0xFFFFFFFF, 0x80000015
MaskedValues == {AllOnes, {0, 2, 4, 31}}

\* values written to the gradient registers: 0x800000, 0x00FFF000, 0x007FF000,
\* 0x80801000 (bits 31 and 23), 0x80001000 (bit 31 without bit 23)
GradValues == {{23}, 12..23, 12..22, {12, 23, 31}, {12, 31}}

\* values written to FBIJR_INIT3: 0x00000203, 0xFFFFFFFF, 0x00601002 (disabled,
\* bottom 1, top 2, threshold 3), 0x00001003, 0x80000000
Init3Values == {{0, 1, 9}, AllOnes, {1, 12, 21, 22}, {0, 1, 12}, {31}}

RegInputs ==
    ((DOMAIN MaskWidth) \X MaskedValues)
    \cup ({SST96_DRDX, SST96_DGDY, SST96_DADX, SST96_DBDY} \X GradValues)
    \cup ({SST96_FBIJR_INIT3} \X Init3Values)
    \cup {<<SST96_START_R, AllOnes>>, <<SST96_VERTEX_AX, {15}>>,
          <<SST96_CMDFIFO_ENABLE, {0}>>, <<256, AllOnes>>}

RegReadInputs == (DOMAIN MaskWidth) \cup {SST96_DRDX, SST96_FBIJR_INIT3, SST96_STATUS, 256}

NextReg ==
    \/ \E inp \in RegInputs : Tick(MaxRegOps) /\ RegWrite(inp[1], inp[2])
    \/ \E reg \in RegReadInputs : Tick(MaxRegOps) /\ RegRead(reg)
    \/ Tick(MaxRegOps) /\ Reset

SpecReg == Init /\ [][NextReg]_vars

\* C4 (as stated): after reg_write(r, v) to a register with a documented mask,
\* reg_read(r) returns v with exactly that register's mask applied.
C4_MaskedReadBack ==
    (last.op = "reg_write" /\ last.a \in DOMAIN MaskWidth)
        => voodoo_rush_reg_read(rush, last.a) = Low(last.val, MaskWidth[last.a])

\* the 24-bit two's-complement value of the low 24 bits of a word
TwosComplement24(v) ==
    IF 23 \in v THEN Val(Low(v, 24)) - 16777216 ELSE Val(Low(v, 24))

\* C5 (as stated): after a write with bit 23 set to a color gradient register,
\* the translated parameter block holds the 24-bit two's-complement value.
C5_GradientUnshifted ==
    (last.op = "reg_write" /\ last.a \in ColorGradRegs /\ 23 \in last.val)
        => Signed(sst96_to_voodoo_params(rush)[TriangleReg[last.a]])
               = TwosComplement24(last.val)

\* C5 (amended): after a write with bit 23 set to a color gradient register the
\* stored gradient is the 24-bit two's-complement value of the written word,
\* and the translated parameter block holds that value shifted right by 12
\* arithmetically (0x800000 gives -8388608 stored and -2048 translated).
C5_GradientSigned ==
    (last.op = "reg_write" /\ last.a \in ColorGradRegs /\ 23 \in last.val)
        => /\ Signed(rush.triangle[TriangleReg[last.a]]) = TwosComplement24(last.val)
           /\ Signed(sst96_to_voodoo_params(rush)[TriangleReg[last.a]])
                  = -((4095 - TwosComplement24(last.val)) \div 4096)
           /\ (last.val = {23} =>
                  Signed(sst96_to_voodoo_params(rush)[TriangleReg[last.a]]) = -2048)

C5_Witness ==
    /\ last.op = "reg_write" /\ last.a = SST96_DRDX /\ last.val = {23}
    /\ Signed(rush.triangle.dRdX) = -8388608

\* C9: a write of v to FBIJR_INIT3 sets cmdfifo_enabled to bit 0 of v, the
\* bottom page to bits 1..10, the top page to bits 11..20 and the threshold to
\* bits 21..30; 0x00000203 in 8MB mode enables the CMDFIFO.
C9_Init3Decode ==
    (last.op = "reg_write" /\ last.a = SST96_FBIJR_INIT3)
        => /\ rush.cmdfifo_enabled = (IF 0 \in last.val THEN 1 ELSE 0)
           /\ rush.cmdfifo_bottom_page = Val({i - 1 : i \in last.val \cap (1..10)})
           /\ rush.cmdfifo_top_page = Val({i - 11 : i \in last.val \cap (11..20)})
           /\ rush.cmdfifo_threshold = Val({i - 21 : i \in last.val \cap (21..30)})
           /\ (last.val = {0, 1, 9} => rush.cmdfifo_enabled = 1)

C9_Witness ==
    /\ last.op = "reg_write" /\ last.a = SST96_FBIJR_INIT3 /\ last.val = {0, 1, 9}
    /\ rush.puma_mode_8mb = 1 /\ rush.cmdfifo_enabled = 1
    /\ rush.cmdfifo_bottom_page = 257 /\ rush.cmdfifo_top_page = 0

-----------------------------------------------------------------------------
(* SpecFifo: the CMDFIFO engine in 8MB mode, ring [0x1000, 0x2000) *)

\* pages 1 and 2 of the frame buffer, as FBIJR_INIT3 = 0x1003 sets them
RingBase == 1 * 4096
RingTop == 2 * 4096

\* packet words: singleton headers for COLOR0 and COLOR1 (register number in
\* bits 14..21 of the header), a grouped header with base address 0x15800
\* (COLOR0 by the same decode), the mask 0b101, data words 0x11 and 0x22
HdrColor0 == W(SST96_COLOR0 * 16384)
HdrColor1 == W(SST96_COLOR1 * 16384)
HdrGrouped == {31} \cup W(SST96_COLOR0 * 4096)
Mask101 == {0, 2}
Data11 == {0, 4}
Data22 == {1, 5}

FifoPumaWrites ==
    {<<RingBase, HdrColor0>>, <<RingBase, HdrGrouped>>, <<RingBase, ZeroW>>,
     <<RingBase + 4, Data11>>, <<RingBase + 4, Mask101>>, <<RingBase + 4, ZeroW>>,
     <<RingBase + 8, HdrColor1>>, <<RingBase + 8, Data11>>,
     <<RingBase + 12, Data22>>}

\* direct calls of voodoo_rush_cmdfifo_write: at the top of the window, below
\* its base, and inside it at an offset that is neither 0 nor 4 modulo 8
FifoDirectWrites ==
    {<<RingTop, Data11>>, <<RingBase - 4, Data11>>, <<RingBase + 2, Data11>>}

\* FBIJR_INIT3 = 0x00001003 (enabled, pages 1..2, threshold 0) and 0x00201003
\* (threshold 1); CMDFIFO_RDPTR = 510
FifoRegWrites ==
    {<<SST96_FBIJR_INIT3, {0, 1, 12}>>, <<SST96_FBIJR_INIT3, {0, 1, 12, 21}>>,
     <<SST96_CMDFIFO_RDPTR, W(510)>>}

NextFifo ==
    \/ \E inp \in FifoRegWrites : Tick(MaxFifoOps) /\ RegWrite(inp[1], inp[2])
    \/ \E inp \in FifoPumaWrites : Tick(MaxFifoOps) /\ PumaWrite(inp[1], inp[2])
    \/ \E inp \in FifoDirectWrites : Tick(MaxFifoOps) /\ CmdfifoWrite(inp[1], inp[2])
    \/ Tick(MaxFifoOps) /\ ProcessCmdfifo

SpecFifo == Init8MB /\ [][NextFifo]_vars

\* the packets a drain executed, in order
PacketsOf(log) == SelectSeq(log, LAMBDA e : e.ev = "packet")

\* C1 (as stated): a grouped packet with mask 0b101 performs exactly two
\* register writes, to two registers two apart (B and B + 2), with the two
\* words that follow the packet in the ring, in that order, and advances the
\* read pointer by 3 modulo the ring size.
C1_GroupedWritesTwoRegisters ==
    \A i \in 1..Len(PacketsOf(rush.log)) :
        LET e == PacketsOf(rush.log)[i]
        IN (e.kind = "grouped" /\ e.data = Mask101)
              => /\ Len(e.writes) = 2
                 /\ e.writes[2][1] = e.writes[1][1] + 2
                 /\ e.writes[1][2] = Rd32(e.fb_before, e.read_addr + 8)
                 /\ e.writes[2][2] = Rd32(e.fb_before, e.read_addr + 12)
                 /\ e.rp_after = (e.rp_before + 3) % e.size

\* the register a singleton header addresses: bits 14..21 of the header
HeaderReg(hdr) == puma_addr_to_reg(Val(Field(hdr, 2, 21)), 0)

\* C2 (as stated): when the data word of the k-th singleton packet of a stream
\* has been written, the register its header addresses reads back as its data
\* word (every packet is executed, once, in write order).
C2_SingletonsInOrder ==
    (last.op \in FifoWriteOps /\ stream.k >= 1 /\ ~stream.half)
        => voodoo_rush_reg_read(rush, HeaderReg(stream.hdr)) = stream.data

\* C3: a write of the second word of a NOP packet whose drain executes that
\* packet and no other leaves the entry count as it was before the write,
\* writes no register, and advances the read pointer by 2 modulo the ring size.
C3_NopPacket ==
    [][ ( /\ last'.op \in FifoWriteOps
          /\ Len(PacketsOf(rush'.log)) = 1
          /\ PacketsOf(rush'.log)[1].kind = "nop"
          /\ PacketsOf(rush'.log)[1].read_addr + 4 = last'.a )
        => /\ rush'.cmdfifo_entry_count = rush.cmdfifo_entry_count
           /\ rush'.regs = rush.regs
           /\ WritesSince(rush', 0) = <<>>
           /\ rush'.cmdfifo_read_ptr
                  = (rush.cmdfifo_read_ptr + 2) % CmdfifoLocals(rush).size ]_vars

\* a NOP packet drained with the read pointer at 510 of a 512-slot ring: the
\* pointer wraps to 0
C3_Witness ==
    /\ last.op = "puma_write" /\ last.val = ZeroW
    /\ Len(PacketsOf(rush.log)) = 1
    /\ PacketsOf(rush.log)[1].kind = "nop"
    /\ PacketsOf(rush.log)[1].read_addr + 4 = last.a
    /\ PacketsOf(rush.log)[1].rp_before = 510
    /\ PacketsOf(rush.log)[1].size = 512
    /\ rush.cmdfifo_read_ptr = 0

\* C10: voodoo_rush_cmdfifo_write with the CMDFIFO enabled and an address below
\* the window base or at or above the window top changes nothing: frame buffer,
\* entry count, read pointer and every other field stay as they were, and no
\* drain runs.
C10_OutOfWindowRejected ==
    [][ ( /\ last'.op = "cmdfifo_write"
          /\ rush.cmdfifo_enabled = 1
          /\ \/ last'.a < rush.cmdfifo_bottom_page * 4096
             \/ last'.a >= rush.cmdfifo_top_page * 4096 )
        => /\ State(rush') = State(rush)
           /\ rush'.log = <<>> ]_vars

\* a non-zero word written at the window top with the CMDFIFO enabled over
\* [0x1000, 0x2000), the frame buffer holding packets already
C10_Witness ==
    /\ last.op = "cmdfifo_write" /\ last.a = RingTop /\ last.val # ZeroW
    /\ rush.cmdfifo_enabled = 1
    /\ rush.cmdfifo_bottom_page * 4096 = RingBase
    /\ rush.cmdfifo_top_page * 4096 = RingTop
    /\ rush.puma_fb # EmptyMem

\* C15: a CMDFIFO write inside the window whose offset from the window base
\* is neither 0 nor 4 modulo 8 leaves the structure as it was: nothing is
\* stored, counted or drained.
C15_MisalignedWriteIgnored ==
    [][ (/\ last'.op = "cmdfifo_write"
         /\ rush.cmdfifo_enabled = 1
         /\ last'.a >= rush.cmdfifo_bottom_page * 4096
         /\ last'.a < rush.cmdfifo_top_page * 4096
         /\ (last'.a - rush.cmdfifo_bottom_page * 4096) % 8 \notin {0, 4})
        => (State(rush') = State(rush) /\ rush'.log = <<>>) ]_vars

\* a non-zero word written at offset 2 of the enabled window, a header word
\* being already in the ring
C15_Witness ==
    /\ last.op = "cmdfifo_write" /\ last.a = RingBase + 2 /\ last.val = Data11
    /\ rush.cmdfifo_enabled = 1
    /\ rush.cmdfifo_bottom_page * 4096 = RingBase
    /\ rush.cmdfifo_top_page * 4096 = RingTop
    /\ Rd32(rush.puma_fb, RingBase) # ZeroW

C25_GroupedDataSupplied ==
    \A i \in 1..Len(PacketsOf(rush.log)) :
        LET e == PacketsOf(rush.log)[i]
        IN e.kind = "grouped"
              => \A k \in 1..Cardinality(e.data) :
                    /\ Rd32(e.fb_before, e.read_addr + 4 + 4 * k) # ZeroW
                    /\ k <= Len(e.writes)
                    /\ e.writes[k][2] = Rd32(e.fb_before, e.read_addr + 4 + 4 * k)

-----------------------------------------------------------------------------
(* SpecFill: fast fill in 8MB mode over a 2 x 2 clip rectangle *)

\* CLIP_LEFT_RIGHT0 = CLIP_TOP_BOTTOM0 = 0x00020000 (from 0 to 2), COLOR0 =
\* 0x00800000 (fill color 0x0010), ZA_COLOR = 1, FBZ_MODE with both write
\* masks, with the Y flip alone, and cleared again
FillRegWrites ==
    {<<SST96_CLIP_LEFT_RIGHT0, {17}>>, <<SST96_CLIP_TOP_BOTTOM0, {17}>>,
     <<SST96_COLOR0, {23}>>, <<SST96_ZA_COLOR, {0}>>,
     <<SST96_FBZ_MODE, {FBZ_RGB_WMASK_BIT, FBZ_DEPTH_WMASK_BIT}>>,
     <<SST96_FBZ_MODE, {17}>>, <<SST96_FBZ_MODE, ZeroW>>,
     <<SST96_FASTFILL_CMD, ZeroW>>}

\* the pixels at offsets 0 and 2 of the frame buffer written through the aperture
FillPumaWrites == {<<0, AllOnes>>}

NextFill ==
    \/ \E inp \in FillRegWrites : Tick(MaxFillOps) /\ RegWrite(inp[1], inp[2])
    \/ \E inp \in FillPumaWrites : Tick(MaxFillOps) /\ PumaWrite(inp[1], inp[2])
    \/ Tick(MaxFillOps) /\ FastFill

SpecFill == Init8MB /\ [][NextFill]_vars

\* the call ran voodoo_rush_fastfill past its enabled check
RanFastfill(log) == \E i \in 1..Len(log) : log[i].ev = "fastfill"

\* C6: a fast fill, called directly or through FASTFILL_CMD, with the color
\* write mask and the depth write mask of FBZ_MODE both clear leaves the frame
\* buffer (color and aux buffer) as it was, whatever the clip rectangle.
C6_FastFillMasksClear ==
    [][ ( /\ last'.op \in {"fastfill", "reg_write"}
          /\ RanFastfill(rush'.log)
          /\ FBZ_RGB_WMASK_BIT \notin rush.fbz_mode
          /\ FBZ_DEPTH_WMASK_BIT \notin rush.fbz_mode )
        => rush'.puma_fb = rush.puma_fb ]_vars

\* a fast fill with both masks clear over a non-empty clip rectangle whose
\* first pixel holds a color other than the fill color
C6_Witness ==
    /\ last.op = "fastfill" /\ RanFastfill(rush.log)
    /\ FBZ_RGB_WMASK_BIT \notin rush.fbz_mode
    /\ FBZ_DEPTH_WMASK_BIT \notin rush.fbz_mode
    /\ FastfillLocals(rush).clip_left < FastfillLocals(rush).clip_right
    /\ FastfillLocals(rush).clip_top < FastfillLocals(rush).clip_bottom
    /\ FillColor(rush.color0) # ZeroW
    /\ rush.puma_fb # EmptyMem
    /\ Low(Rd32(rush.puma_fb, 0), 16) # FillColor(rush.color0)

-----------------------------------------------------------------------------
(* SpecSwap: the swap handshake under any number of swap commands, vsync
   callbacks and resets, and a bounded number of CMDFIFO writes *)

HdrSwapPend == W(SST96_SWAPPEND_CMD * 16384)

SwapRegWrites == {<<SST96_SWAPPEND_CMD, ZeroW>>, <<SST96_SWAPBUFFER_CMD, ZeroW>>}

SwapFifoWrites == {<<RingBase, HdrSwapPend>>, <<RingBase + 4, ZeroW>>}

NextSwap ==
    \/ \E inp \in SwapRegWrites : RegWrite(inp[1], inp[2]) /\ UNCHANGED steps
    \/ Vsync /\ UNCHANGED steps
    \/ Reset /\ UNCHANGED steps
    \/ Tick(MaxSwapPackets) /\ RegWrite(SST96_FBIJR_INIT3, {0, 1, 12})
    \/ \E inp \in SwapFifoWrites : Tick(MaxSwapPackets) /\ PumaWrite(inp[1], inp[2])

SpecSwap == Init8MB /\ [][NextSwap]_vars

\* C7: in every reachable state 0 <= swap_pending <= 7, and after 10 or more
\* consecutive SWAPPEND_CMD writes swap_pending is exactly 7.
C7_SwapPendingRange ==
    /\ rush.swap_pending \in 0..7
    /\ (last.op = "reg_write" /\ last.a = SST96_SWAPPEND_CMD /\ last.rep >= 10)
           => rush.swap_pending = 7

C7_Witness ==
    /\ last.op = "reg_write" /\ last.a = SST96_SWAPPEND_CMD /\ last.rep = 10
    /\ rush.swap_pending = 7

\* the CMDFIFO state of the structure
FifoState(r) ==
    <<r.cmdfifo_enabled, r.cmdfifo_bottom_page, r.cmdfifo_top_page,
      r.cmdfifo_entry_count, r.cmdfifo_read_ptr, r.cmdfifo_threshold>>

\* C20: a write to SWAPBUFFER_CMD sets swap_req to 1 and decrements
\* swap_pending by exactly 1 if it was positive, leaving it 0 if it was 0;
\* the rest of the structure but regs[SWAPBUFFER_CMD], the CMDFIFO state
\* included, stays as it was.
C20_SwapBufferCmd ==
    [][ (last'.op = "reg_write" /\ last'.a = SST96_SWAPBUFFER_CMD)
        => /\ rush'.swap_req = 1
           /\ rush'.swap_pending = (IF rush.swap_pending > 0
                                    THEN rush.swap_pending - 1 ELSE 0)
           /\ FifoState(rush') = FifoState(rush)
           /\ State([rush' EXCEPT !.regs = rush.regs, !.swap_req = rush.swap_req,
                                  !.swap_pending = rush.swap_pending])
                 = State(rush) ]_vars

\* SWAPBUFFER_CMD written with no swap pending, the CMDFIFO enabled and its
\* read pointer moved
C20_Witness ==
    /\ last.op = "reg_write" /\ last.a = SST96_SWAPBUFFER_CMD
    /\ rush.swap_req = 1 /\ rush.swap_pending = 0
    /\ rush.cmdfifo_enabled = 1 /\ rush.cmdfifo_read_ptr > 0

-----------------------------------------------------------------------------
(* SpecSwapLive: at most MaxSwapCmds swap commands and resets, and vsync
   callbacks that keep coming *)

NextSwapLive ==
    \/ \E inp \in SwapRegWrites : Tick(MaxSwapCmds) /\ RegWrite(inp[1], inp[2])
    \/ Tick(MaxSwapCmds) /\ Reset
    \/ Vsync /\ UNCHANGED steps

SpecSwapLive == Init8MB /\ [][NextSwapLive]_vars /\ WF_vars(Vsync /\ UNCHANGED steps)

\* C8 (as stated): once no further command comes, repeated vsync callbacks
\* eventually clear an outstanding swap request.
C8_SwapRequestCleared ==
    (steps = MaxSwapCmds /\ rush.swap_req = 1) ~> (rush.swap_req = 0)

-----------------------------------------------------------------------------
(* SpecCmd: the register file with its command registers.  A run is either a
   single write of 0xFFFFFFFF to any one register, or up to MaxCmdOps calls
   that set up and fire the commands *)

\* FBZ_MODE = 0x80000200 (color write mask), COLOR0 = 0x00800000, the clip
\* rectangle from 0 to 2, and the five command registers written with
\* non-zero values; 256 and 0x156 are out of range; triangle parameters
\* START_R = START_S = 0xFFFFFFFF and DRDX = 0x00800000
CmdRegWrites ==
    {<<SST96_START_R, AllOnes>>, <<SST96_START_S, AllOnes>>, <<SST96_DRDX, {23}>>,
     <<SST96_FBZ_MODE, {FBZ_RGB_WMASK_BIT, 31}>>,
     <<SST96_COLOR0, {23}>>,
     <<SST96_CLIP_LEFT_RIGHT0, {17}>>, <<SST96_CLIP_TOP_BOTTOM0, {17}>>,
     <<SST96_TRIANGLE_CMD, AllOnes>>, <<SST96_FASTFILL_CMD, {0, 3}>>,
     <<SST96_NOP_CMD, {1}>>, <<SST96_SWAPBUFFER_CMD, {5}>>,
     <<SST96_SWAPPEND_CMD, {6}>>,
     <<256, AllOnes>>, <<SST96_COLOR0 + 256, {0}>>}

CmdRegReads == {256, SST96_COLOR0 + 256, SST96_COLOR0}

NextCmd ==
    \/ \E reg \in 0..255 :
          steps = 0 /\ steps' = MaxCmdOps /\ RegWrite(reg, AllOnes)
    \/ \E inp \in CmdRegWrites : Tick(MaxCmdOps) /\ RegWrite(inp[1], inp[2])
    \/ \E reg \in CmdRegReads : Tick(MaxCmdOps) /\ RegRead(reg)
    \/ Tick(MaxCmdOps) /\ AttachVoodoo(0)
    \/ Tick(MaxCmdOps) /\ SetEnabled(0)

SpecCmd == Init8MB /\ [][NextCmd]_vars

\* C11: after reg_write(N, v) with N in 0..255 the raw register storage at N
\* holds v, whether the write updates a mirror or runs a command.
C11_RawStorageHoldsWrite ==
    (last.op = "reg_write" /\ last.a \in 0..255) => RegRaw(rush, last.a) = last.val

\* FASTFILL_CMD written with a non-zero value while its fill changes the frame
\* buffer
C11_Witness ==
    /\ last.op = "reg_write" /\ last.a = SST96_FASTFILL_CMD /\ last.val # ZeroW
    /\ RanFastfill(rush.log)
    /\ rush.puma_fb # EmptyMem
    /\ RegRaw(rush, SST96_FASTFILL_CMD) = last.val

\* C12: reg_read of an index >= 256 returns 0, and reg_write to an index
\* >= 256 leaves the whole structure as it was and runs nothing.
C12_IndexOutOfRange ==
    [][ /\ (last'.op = "reg_read" /\ last'.a >= 256) => last'.ret = ZeroW
        /\ (last'.op = "reg_write" /\ last'.a >= 256)
              => (State(rush') = State(rush) /\ rush'.log = <<>>) ]_vars

\* 0xFFFFFFFF written to index 256 with registers already holding values
C12_Witness ==
    /\ last.op = "reg_write" /\ last.a = 256 /\ last.val = AllOnes
    /\ rush.regs # <<>>
    /\ rush.log = <<>>

\* C29 (as stated): a write to FBIJR_INIT4 sets the CMDFIFO entry count from
\* the value written (val & 0x7ffff) and a write to FBIJR_INIT5 sets the
\* CMDFIFO read pointer from it, besides storing the init register.
C29_Init45SetFifo ==
    [][ /\ (last'.op = "reg_write" /\ last'.a = SST96_FBIJR_INIT4)
              => /\ rush'.cmdfifo_entry_count = Val(Low(last'.val, 19))
                 /\ rush'.fbijr_init[5] = last'.val
        /\ (last'.op = "reg_write" /\ last'.a = SST96_FBIJR_INIT5)
              => /\ rush'.cmdfifo_read_ptr = Val(Low(last'.val, 19))
                 /\ rush'.fbijr_init[6] = last'.val ]_vars

\* C30: a write to TRIANGLE_CMD with a rendering engine attached and the
\* device enabled submits exactly one parameter block to the engine and adds
\* exactly 1 to the pixels-in counter; with no engine attached or the device
\* disabled it submits nothing and leaves the counter as it was.
C30_TriangleCmd ==
    [][ (last'.op = "reg_write" /\ last'.a = SST96_TRIANGLE_CMD)
        => LET queued == SelectSeq(rush'.log, LAMBDA e : e.ev = "queue_triangle")
           IN IF rush.voodoo.attached /\ rush.enabled = 1
              THEN Len(queued) = 1 /\ rush'.pixels_in = rush.pixels_in + 1
              ELSE Len(queued) = 0 /\ rush'.pixels_in = rush.pixels_in ]_vars

\* the second triangle submitted to an attached engine
C30_Witness ==
    /\ last.op = "reg_write" /\ last.a = SST96_TRIANGLE_CMD
    /\ rush.voodoo.attached /\ rush.enabled = 1
    /\ \E i \in 1..Len(rush.log) : rush.log[i].ev = "queue_triangle"
    /\ rush.pixels_in = 2

\* TRIANGLE_CMD written with an engine attached and the device disabled
C30_WitnessDisabled ==
    /\ last.op = "reg_write" /\ last.a = SST96_TRIANGLE_CMD
    /\ rush.voodoo.attached /\ rush.enabled = 0
    /\ rush.pixels_in = 1

-----------------------------------------------------------------------------
(* SpecPuma: the PUMA aperture and the THP port in both modes, with the device
   enabled and disabled *)

\* the 8MB-mode addresses of COLOR0 and, one wrap of the 8-bit index further
\* and off the page start, of SWAPPEND_CMD; the same two registers in 4MB mode
Addr8MB_Color0 == SST96_PUMA_REG_START + SST96_COLOR0 * 4096
Addr8MB_SwapPend == SST96_PUMA_REG_START + (256 + SST96_SWAPPEND_CMD) * 4096 + 2052
Addr4MB_Color0 == SST96_PUMA_REG_START_4MB + SST96_COLOR0 * 4096
Addr4MB_SwapPend == SST96_PUMA_REG_START_4MB + SST96_SWAPPEND_CMD * 4096 + 2052

\* the start of the frame buffer, an address of the frame buffer and one of
\* 8MB-mode texture memory that are not multiples of 4, the 8MB-mode address of
\* the status register,
\* the four register addresses, the start of texture memory in each mode, the
\* end of the 8MB aperture, and 0x40000000
PumaAddrs ==
    {0, 2, SST96_PUMA_TEX_START + 2, SST96_PUMA_REG_START, Addr8MB_Color0, Addr8MB_SwapPend, Addr4MB_Color0, Addr4MB_SwapPend,
     SST96_PUMA_TEX_START, SST96_PUMA_TEX_START_4MB,
     SST96_PUMA_TEX_START + SST96_PUMA_TEX_SIZE, 1073741824}

\* the start of the frame buffer, a register address of each mode, and the
\* start of texture memory in each mode
ThpAddrs ==
    {0, Addr8MB_Color0, Addr4MB_SwapPend, SST96_PUMA_TEX_START,
     SST96_PUMA_TEX_START_4MB}

NextPuma ==
    \/ \E a \in PumaAddrs : Tick(MaxPumaOps) /\ PumaWrite(a, AllOnes)
    \/ \E a \in PumaAddrs : Tick(MaxPumaOps) /\ PumaRead(a)
    \/ \E reg \in {SST96_STATUS, SST96_COLOR0} : Tick(MaxPumaOps) /\ RegRead(reg)
    \/ \E a \in ThpAddrs : Tick(MaxPumaOps) /\ ThpWrite(a, AllOnes)
    \/ \E a \in ThpAddrs : Tick(MaxPumaOps) /\ ThpRead(a)
    \/ \E e \in {0, 1} : Tick(MaxPumaOps) /\ SetEnabled(e)
    \/ Tick(MaxPumaOps) /\ CmdfifoWrite(4, AllOnes)
    \/ Tick(MaxPumaOps) /\ ProcessCmdfifo
    \/ Tick(MaxPumaOps) /\ Vsync
    \/ Tick(MaxPumaOps) /\ FastFill
    \/ Tick(MaxPumaOps) /\ RenderTriangle
    \/ Tick(MaxPumaOps) /\ AttachVoodoo(1)
    \/ Tick(MaxPumaOps) /\ Reset

SpecPuma == Init /\ [][NextPuma]_vars

\* the regions of the aperture in the mode of r, from the layout constants
FbEnd(r) == IF r.puma_mode_8mb = 1 THEN SST96_PUMA_FB_SIZE ELSE SST96_PUMA_FB_SIZE_4MB
RegLo(r) == IF r.puma_mode_8mb = 1 THEN SST96_PUMA_REG_START ELSE SST96_PUMA_REG_START_4MB
RegHi(r) ==
    IF r.puma_mode_8mb = 1 THEN SST96_PUMA_REG_START + SST96_PUMA_REG_SIZE
    ELSE SST96_PUMA_REG_START_4MB + SST96_PUMA_REG_SIZE_4MB
TexLo(r) == IF r.puma_mode_8mb = 1 THEN SST96_PUMA_TEX_START ELSE SST96_PUMA_TEX_START_4MB
TexHi(r) ==
    IF r.puma_mode_8mb = 1 THEN SST96_PUMA_TEX_START + SST96_PUMA_TEX_SIZE
    ELSE SST96_PUMA_TEX_START_4MB + SST96_PUMA_TEX_SIZE_4MB

InRegRegion(r, a) == a >= RegLo(r) /\ a < RegHi(r)
OutsideRegions(r, a) ==
    ~(a < FbEnd(r)) /\ ~InRegRegion(r, a) /\ ~(a >= TexLo(r) /\ a < TexHi(r))

C14_InvalidAddress ==
    [][ /\ (last'.op = "puma_read" /\ OutsideRegions(rush, last'.a))
              => last'.ret = ZeroW
        /\ (last'.op = "puma_write" /\ OutsideRegions(rush, last'.a))
              => (State(rush') = State(rush) /\ rush'.log = <<>>) ]_vars

\* in 4MB mode, a write at 0x600000 (texture memory in 8MB mode only)
C14_Witness ==
    /\ last.op = "puma_write" /\ last.a = SST96_PUMA_TEX_START /\ last.val # ZeroW
    /\ rush.puma_mode_8mb = 0 /\ rush.enabled = 1
    /\ rush.puma_tex = EmptyMem

\* C19: voodoo_rush_reset leaves the frame buffer, the texture memory, the
\* aperture mode and the sizes of both memories as they were.
C19_ResetKeepsMemory ==
    [][ (last'.op = "reset")
        => /\ rush'.puma_fb = rush.puma_fb
           /\ rush'.puma_tex = rush.puma_tex
           /\ rush'.puma_mode_8mb = rush.puma_mode_8mb
           /\ rush'.puma_fb_size = rush.puma_fb_size
           /\ rush'.puma_tex_size = rush.puma_tex_size ]_vars

\* a reset with words written in the frame buffer and in texture memory
C19_Witness ==
    /\ last.op = "reset"
    /\ rush.puma_fb # EmptyMem /\ rush.puma_tex # EmptyMem

\* C23: thp_write leaves the structure, but for the PUMA request flag, exactly
\* as puma_write with the same address and value would (registers, frame
\* buffer, texture memory, CMDFIFO state and swap state included), and thp_read
\* returns what puma_read returns for the same address.
C23_ThpIsPuma ==
    [][ /\ last'.op = "thp_write"
              => LET p == voodoo_rush_puma_write(Begin(rush), last'.a, last'.val)
                 IN [rush' EXCEPT !.puma_req = p.puma_req] = p
        /\ last'.op = "thp_read"
              => last'.ret = voodoo_rush_puma_read(rush, last'.a) ]_vars

\* a THP write in 4MB mode to an address of the register region that decodes
\* to SWAPPEND_CMD and has counted a pending swap
C23_Witness ==
    /\ last.op = "thp_write" /\ last.a = Addr4MB_SwapPend
    /\ rush.puma_mode_8mb = 0 /\ rush.enabled = 1
    /\ RegRaw(rush, SST96_SWAPPEND_CMD) = last.val
    /\ rush.swap_pending > 0

-----------------------------------------------------------------------------
(* SpecOff: calls made with the device or the CMDFIFO disabled.  A run is up
   to MaxOffSetup calls that set the device up, possibly the device being
   disabled, and then one of the calls under test *)

\* a swap request and a pending swap, the registers of a fast fill that
\* changes the frame buffer, and FBIJR_INIT3 = 0x00001002 (CMDFIFO disabled,
\* pages 1..2)
OffSetupWrites ==
    {<<SST96_SWAPBUFFER_CMD, ZeroW>>, <<SST96_SWAPPEND_CMD, ZeroW>>,
     <<SST96_FBZ_MODE, {FBZ_RGB_WMASK_BIT}>>, <<SST96_COLOR0, {23}>>,
     <<SST96_CLIP_LEFT_RIGHT0, {17}>>, <<SST96_CLIP_TOP_BOTTOM0, {17}>>,
     <<SST96_FBIJR_INIT3, {1, 12}>>}

OffTestOps ==
    {"puma_read", "thp_read", "thp_write", "vsync", "fastfill", "render_triangle",
     "cmdfifo_write", "process_cmdfifo"}

\* no call under test has been made yet
OffSetupPhase == last.op \notin OffTestOps

NextOff ==
    \/ \E inp \in OffSetupWrites :
          OffSetupPhase /\ rush.enabled = 1 /\ Tick(MaxOffSetup)
          /\ RegWrite(inp[1], inp[2])
    \/ OffSetupPhase /\ rush.enabled = 1 /\ Tick(MaxOffSetup) /\ PumaWrite(0, AllOnes)
    \/ OffSetupPhase /\ rush.enabled = 1 /\ Tick(MaxOffSetup) /\ AttachVoodoo(0)
    \/ OffSetupPhase /\ rush.enabled = 1 /\ SetEnabled(0) /\ UNCHANGED steps
    \/ OffSetupPhase /\ rush.enabled = 0 /\ PumaWrite(4, AllOnes) /\ UNCHANGED steps
    \/ OffSetupPhase /\ PumaRead(0) /\ UNCHANGED steps
    \/ OffSetupPhase /\ ThpRead(0) /\ UNCHANGED steps
    \/ OffSetupPhase /\ ThpWrite(4, AllOnes) /\ UNCHANGED steps
    \/ OffSetupPhase /\ Vsync /\ UNCHANGED steps
    \/ OffSetupPhase /\ FastFill /\ UNCHANGED steps
    \/ OffSetupPhase /\ RenderTriangle /\ UNCHANGED steps
    \/ OffSetupPhase /\ CmdfifoWrite(RingBase + 4, AllOnes) /\ UNCHANGED steps
    \/ OffSetupPhase /\ ProcessCmdfifo /\ UNCHANGED steps

SpecOff == Init8MB /\ [][NextOff]_vars

\* C16: with the device disabled puma_read and thp_read return 0 and
\* puma_write, thp_write, the vsync callback, fast fill and triangle rendering
\* leave the structure as it was; with the CMDFIFO disabled cmdfifo_write and
\* the drain leave the structure as it was.
C16_DisabledNoOp ==
    [][ /\ (rush.enabled = 0 /\ last'.op \in {"puma_read", "thp_read"})
              => last'.ret = ZeroW
        /\ (rush.enabled = 0 /\ last'.op \in {"puma_write", "thp_write", "vsync",
                                              "fastfill", "render_triangle"})
              => State(rush') = State(rush)
        /\ (rush.cmdfifo_enabled = 0 /\ last'.op \in {"cmdfifo_write", "process_cmdfifo"})
              => State(rush') = State(rush) ]_vars

\* a vsync callback with the device disabled, a swap requested and a swap
\* pending
C16_Witness ==
    /\ last.op = "vsync"
    /\ rush.enabled = 0
    /\ rush.swap_req = 1 /\ rush.swap_pending > 0

-----------------------------------------------------------------------------
(* SpecReset: voodoo_rush_reset after register writes that change every kind
   of state the structure holds *)

\* initialization registers 0, 3 (CMDFIFO enabled, pages 1..2, threshold 1)
\* and 4, mirrored registers, swap commands, triangle parameters, the CMDFIFO
\* read pointer, and a register that is only stored in regs[]
ResetRegWrites ==
    {<<SST96_FBIJR_INIT0, AllOnes>>, <<SST96_FBIJR_INIT3, {0, 1, 12, 21}>>,
     <<SST96_FBIJR_INIT4, AllOnes>>,
     <<SST96_COL_BUFFER_SETUP, AllOnes>>, <<SST96_CLIP_LEFT_RIGHT1, AllOnes>>,
     <<SST96_FBZ_MODE, AllOnes>>, <<SST96_COLOR0, AllOnes>>,
     <<SST96_SWAPBUFFER_CMD, ZeroW>>, <<SST96_SWAPPEND_CMD, ZeroW>>,
     <<SST96_VERTEX_AX, {15}>>, <<SST96_START_R, AllOnes>>,
     <<SST96_CMDFIFO_RDPTR, {0}>>, <<SST96_NOP_CMD, AllOnes>>}

NextReset ==
    \/ \E inp \in ResetRegWrites : Tick(MaxResetOps) /\ RegWrite(inp[1], inp[2])
    \/ Tick(MaxResetOps) /\ Reset

SpecReset == Init8MB /\ [][NextReset]_vars

\* C17: after voodoo_rush_reset the CMDFIFO is disabled with entry count 0 and
\* read pointer 0, swap_pending and swap_req are 0, every integer triangle
\* parameter is 0, and reg_read of FBIJR_INIT0..3 returns 0x0000f201,
\* 0x01800000, 0x00070d2d, 0x00180600.
C17_ResetState ==
    [][ (last'.op = "reset")
        => /\ rush'.cmdfifo_enabled = 0
           /\ rush'.cmdfifo_entry_count = 0
           /\ rush'.cmdfifo_read_ptr = 0
           /\ rush'.swap_pending = 0 /\ rush'.swap_req = 0
           /\ \A f \in DOMAIN rush'.triangle : rush'.triangle[f] = ZeroW
           /\ voodoo_rush_reg_read(rush', SST96_FBIJR_INIT0) = W(61953)
           /\ voodoo_rush_reg_read(rush', SST96_FBIJR_INIT1) = W(25165824)
           /\ voodoo_rush_reg_read(rush', SST96_FBIJR_INIT2) = W(462125)
           /\ voodoo_rush_reg_read(rush', SST96_FBIJR_INIT3) = W(1574400) ]_vars

\* a reset of a device whose FBIJR_INIT3 had been written (the pages it set
\* are still there) and whose read pointer had been moved
C17_Witness ==
    /\ last.op = "reset"
    /\ rush.cmdfifo_top_page = 2 /\ rush.cmdfifo_bottom_page = 1
    /\ rush.cmdfifo_enabled = 0 /\ rush.cmdfifo_read_ptr = 0
    /\ voodoo_rush_reg_read(rush, SST96_FBIJR_INIT3) = W(1574400)

\* C18 (as stated): after voodoo_rush_reset reg_read returns 0 for every index
\* other than FBIJR_INIT0..3 and FBIJR_VERSION, and the mode registers, the
\* fill colors, the CMDFIFO pages and the threshold are 0.
C18_ResetZeroesAll ==
    [][ (last'.op = "reset")
        => /\ \A reg \in (0..255) \ ((SST96_FBIJR_INIT0..SST96_FBIJR_INIT3)
                                     \cup {SST96_FBIJR_VERSION}) :
                 voodoo_rush_reg_read(rush', reg) = ZeroW
           /\ rush'.fbz_mode = ZeroW /\ rush'.fbz_color_path = ZeroW
           /\ rush'.alpha_mode = ZeroW /\ rush'.fog_mode = ZeroW
           /\ rush'.color0 = ZeroW /\ rush'.color1 = ZeroW /\ rush'.za_color = ZeroW
           /\ rush'.cmdfifo_bottom_page = 0 /\ rush'.cmdfifo_top_page = 0
           /\ rush'.cmdfifo_threshold = 0 ]_vars

-----------------------------------------------------------------------------
(* SpecDrain: the drain in both modes over the ring [0x1000, 0x2000), with
   the read pointer moved in and out of the ring so that entries stay pending *)

\* FBIJR_INIT3 = 0x00001003 (threshold 0) and 0x00201003 (threshold 1);
\* CMDFIFO_RDPTR = 512, whose slot is the top of the ring, and 0; packet words:
\* the grouped header of SpecFifo and the singleton header 0x00400000, whose
\* register address 0x100000 is past the 4MB register window; second words
\* 0x11 and 0
NextDrain ==
    \/ \E val \in {{0, 1, 12}, {0, 1, 12, 21}} :
          Tick(MaxDrainOps) /\ RegWrite(SST96_FBIJR_INIT3, val)
    \/ \E val \in {W(512), ZeroW} : Tick(MaxDrainOps) /\ RegWrite(SST96_CMDFIFO_RDPTR, val)
    \/ \E val \in {HdrGrouped, {22}} : Tick(MaxDrainOps) /\ PumaWrite(RingBase, val)
    \/ \E val \in {Data11, ZeroW} : Tick(MaxDrainOps) /\ PumaWrite(RingBase + 4, val)
    \/ Tick(MaxDrainOps) /\ ProcessCmdfifo

SpecDrain == Init /\ [][NextDrain]_vars

\* C21: a drain executes at most threshold packets when the threshold is
\* positive, and when it is 0 exactly the entries pending when it began,
\* unless it aborts; each executed packet lowers the entry count by exactly
\* one and the count never goes below 0.
C21_DrainBudget ==
    [][ (\E i \in 1..Len(rush'.log) : rush'.log[i].ev = "drain")
        => LET pk == PacketsOf(rush'.log)
               start == IF last'.op = "process_cmdfifo"
                        THEN rush.cmdfifo_entry_count
                        ELSE rush.cmdfifo_entry_count + 1
               aborted == \E i \in 1..Len(rush'.log) : rush'.log[i].ev = "abort"
           IN /\ rush.cmdfifo_threshold > 0 => Len(pk) <= rush.cmdfifo_threshold
              /\ (rush.cmdfifo_threshold = 0 /\ ~aborted) => Len(pk) = start
              /\ \A i \in 1..Len(pk) :
                    /\ pk[i].count_before = start - (i - 1)
                    /\ pk[i].count_after = pk[i].count_before - 1
                    /\ pk[i].count_after >= 0
              /\ rush'.cmdfifo_entry_count = start - Len(pk) ]_vars

\* a drain with threshold 1 that executed one packet and left entries pending
C21_Witness ==
    /\ last.op \in {"puma_write", "process_cmdfifo"}
    /\ rush.cmdfifo_threshold = 1
    /\ Len(PacketsOf(rush.log)) = 1
    /\ rush.log[Len(rush.log)].ev = "packet"
    /\ rush.cmdfifo_entry_count >= 1

\* a drain with threshold 0 that executed the two entries pending
C21_WitnessAll ==
    /\ last.op = "process_cmdfifo"
    /\ rush.cmdfifo_threshold = 0
    /\ Len(PacketsOf(rush.log)) = 2
    /\ rush.cmdfifo_entry_count = 0

C26_InvalidSingleton ==
    \A i \in 1..Len(PacketsOf(rush.log)) :
        LET e == PacketsOf(rush.log)[i]
        IN e.kind = "single"
              => /\ e.rp_after = (e.rp_before + 2) % e.size
                 /\ e.count_after = e.count_before - 1
                 /\ RegLo(rush) + Val(Field(e.hdr, 2, 21)) >= RegHi(rush)
                       => e.writes = <<>>

\* in 4MB mode, the singleton packet 0x00400000, 0x11 (register address
\* 0x100000, the size of the 4MB register window) executed without a write
C26_Witness ==
    /\ rush.puma_mode_8mb = 0
    /\ \E i \in 1..Len(rush.log) :
          /\ rush.log[i].ev = "packet" /\ rush.log[i].kind = "single"
          /\ rush.log[i].hdr = {22} /\ rush.log[i].data = Data11
          /\ rush.log[i].writes = <<>>
          /\ rush.log[i].rp_after = rush.log[i].rp_before + 2
    /\ RegRaw(rush, 0) = ZeroW

\* C27: a drained grouped packet (bit 31 of the header set) whose mask has no
\* bit set executes no register write, advances the read pointer by exactly 2
\* modulo the ring size and lowers the entry count by 1.
C27_EmptyMaskSkipped ==
    \A i \in 1..Len(PacketsOf(rush.log)) :
        LET e == PacketsOf(rush.log)[i]
        IN (31 \in e.hdr /\ e.data = ZeroW)
              => /\ e.writes = <<>>
                 /\ e.rp_after = (e.rp_before + 2) % e.size
                 /\ e.count_after = e.count_before - 1

\* a drain that executed the grouped header with mask 0 and nothing else
C27_Witness ==
    /\ Len(PacketsOf(rush.log)) = 1
    /\ PacketsOf(rush.log)[1].hdr = HdrGrouped
    /\ PacketsOf(rush.log)[1].data = ZeroW
    /\ rush.cmdfifo_read_ptr = 2 /\ rush.cmdfifo_entry_count = 0
    /\ RegRaw(rush, SST96_COLOR0) = ZeroW

\* C28: when the slot the read pointer selects at the start of a drain
\* iteration is out of the ring bounds the drain aborts: that iteration writes
\* no register and the entry count and the read pointer keep the values they
\* had (those of the start of the drain if it is the first iteration, those
\* the last executed packet left otherwise).
C28_AbortKeepsState ==
    [][ (\E i \in 1..Len(rush'.log) : rush'.log[i].ev = "drain")
        => LET log == rush'.log
               n == Len(log)
               base == rush.cmdfifo_bottom_page * 4096
               top == rush.cmdfifo_top_page * 4096
               slot == base + BitAnd(rush.cmdfifo_read_ptr, (top - base) \div 8) * 8
               start == IF last'.op = "process_cmdfifo"
                        THEN rush.cmdfifo_entry_count
                        ELSE rush.cmdfifo_entry_count + 1
           IN /\ (slot < base \/ slot + 8 > top)
                    => /\ log[n].ev = "abort" /\ log[n - 1].ev = "drain"
                       /\ rush'.regs = rush.regs
              /\ log[n].ev = "abort"
                    => /\ log[n - 1].ev \in {"drain", "packet"}
                       /\ log[n - 1].ev = "drain"
                             => /\ rush'.cmdfifo_read_ptr = rush.cmdfifo_read_ptr
                                /\ rush'.cmdfifo_entry_count = start
                       /\ log[n - 1].ev = "packet"
                             => /\ rush'.cmdfifo_read_ptr = log[n - 1].rp_after
                                /\ rush'.cmdfifo_entry_count = log[n - 1].count_after ]_vars

\* the second word of a packet written with the read pointer at 512, whose
\* slot is the top of the ring: the drain aborted and the entry stays pending
C28_Witness ==
    /\ last.op = "puma_write" /\ last.a = RingBase + 4
    /\ rush.log # <<>> /\ rush.log[Len(rush.log)].ev = "abort"
    /\ rush.log[Len(rush.log)].read_addr = RingTop
    /\ rush.cmdfifo_read_ptr = 512 /\ rush.cmdfifo_entry_count >= 1

-----------------------------------------------------------------------------
(* SpecColor: one fast fill of the 2 x 1 rectangle at the origin, after each
   register it reads has been programmed at most once.  COLOR0 takes each
   single-bit value and 0xFFFFFFFF, ZA_COLOR takes 0xFFFFFFFF and 0x00010001,
   FBZ_MODE has the color write mask with or without the depth write mask, and
   AUX_BUFFER_SETUP = 0x10 puts the depth buffer 16 bytes after the color
   buffer *)

NextColor ==
    \/ \E c \in {{i} : i \in BitIdx} \cup {AllOnes} :
          /\ last.op # "fastfill" /\ SST96_COLOR0 \notin DOMAIN rush.regs
          /\ RegWrite(SST96_COLOR0, c) /\ UNCHANGED steps
    \/ \E z \in {AllOnes, {0, 16}} :
          /\ last.op # "fastfill" /\ SST96_ZA_COLOR \notin DOMAIN rush.regs
          /\ RegWrite(SST96_ZA_COLOR, z) /\ UNCHANGED steps
    \/ \E m \in {{FBZ_RGB_WMASK_BIT}, {FBZ_RGB_WMASK_BIT, FBZ_DEPTH_WMASK_BIT}} :
          /\ last.op # "fastfill" /\ SST96_FBZ_MODE \notin DOMAIN rush.regs
          /\ RegWrite(SST96_FBZ_MODE, m) /\ UNCHANGED steps
    \/ \E inp \in {<<SST96_CLIP_LEFT_RIGHT0, {17}>>, <<SST96_CLIP_TOP_BOTTOM0, {16}>>,
                   <<SST96_AUX_BUFFER_SETUP, {4}>>} :
          /\ last.op # "fastfill" /\ inp[1] \notin DOMAIN rush.regs
          /\ RegWrite(inp[1], inp[2]) /\ UNCHANGED steps
    \/ last.op # "fastfill" /\ FastFill /\ UNCHANGED steps

SpecColor == Init8MB /\ [][NextColor]_vars

-----------------------------------------------------------------------------
(* SpecClip: one fast fill, in either PUMA mode, after each register it reads
   has been programmed at most once: clip rows [0, 2) or [1, 2), columns
   [0, 2), a color buffer of stride 4 at offset 0 or at offset 0x3FFFFF, a
   depth buffer of stride 4 at offset 0x10, the write masks with and without
   the vertical-flip bit *)

NextClip ==
    \/ \E m \in {{FBZ_RGB_WMASK_BIT}, {FBZ_RGB_WMASK_BIT, 17},
                 {FBZ_RGB_WMASK_BIT, FBZ_DEPTH_WMASK_BIT},
                 {FBZ_RGB_WMASK_BIT, FBZ_DEPTH_WMASK_BIT, 17}} :
          /\ last.op # "fastfill" /\ SST96_FBZ_MODE \notin DOMAIN rush.regs
          /\ RegWrite(SST96_FBZ_MODE, m) /\ UNCHANGED steps
    \/ \E rows \in {{17}, {0, 17}} :
          /\ last.op # "fastfill" /\ SST96_CLIP_TOP_BOTTOM0 \notin DOMAIN rush.regs
          /\ RegWrite(SST96_CLIP_TOP_BOTTOM0, rows) /\ UNCHANGED steps
    \/ \E setup \in {{22}, 0..22} :
          /\ last.op # "fastfill" /\ SST96_COL_BUFFER_SETUP \notin DOMAIN rush.regs
          /\ RegWrite(SST96_COL_BUFFER_SETUP, setup) /\ UNCHANGED steps
    \/ \E inp \in {<<SST96_CLIP_LEFT_RIGHT0, {17}>>, <<SST96_AUX_BUFFER_SETUP, {4, 22}>>,
                   <<SST96_COLOR0, AllOnes>>, <<SST96_ZA_COLOR, AllOnes>>} :
          /\ last.op # "fastfill" /\ inp[1] \notin DOMAIN rush.regs
          /\ RegWrite(inp[1], inp[2]) /\ UNCHANGED steps
    \/ last.op # "fastfill" /\ FastFill /\ UNCHANGED steps

SpecClip == Init /\ [][NextClip]_vars

\* C33: a fast fill modifies only bytes of pixels (x, y) with
\* clip_left <= x < clip_right and clip_top <= y < clip_bottom, and no byte at
\* an offset >= the frame-buffer size; the rows written with the vertical-flip
\* bit set are the rows written with it clear.
C33_FillInsideClip ==
    [][ (last'.op = "fastfill" /\ RanFastfill(rush'.log))
        => LET p == FastfillLocals(rush)
               inside(a) == \E x \in p.clip_left..(p.clip_right - 1),
                               y \in p.clip_top..(p.clip_bottom - 1), k \in 0..1 :
                                 \/ a = p.col_base + y * p.col_stride + x * 2 + k
                                 \/ a = p.aux_base + y * p.aux_stride + x * 2 + k
               other == [rush EXCEPT !.fbz_mode =
                            IF 17 \in @ THEN @ \ {17} ELSE @ \cup {17}]
           IN /\ \A a \in DOMAIN rush'.puma_fb \cup DOMAIN rush.puma_fb :
                    Rd8(rush'.puma_fb, a) # Rd8(rush.puma_fb, a) => inside(a)
              /\ \A a \in DOMAIN rush'.puma_fb : a < rush.puma_fb_size
              /\ voodoo_rush_fastfill(other).puma_fb = rush'.puma_fb ]_vars

\* the same, for the rows alone: with clip_top > 0 the flipped fill writes
\* the rows [0, clip_bottom - clip_top), not [clip_top, clip_bottom)
C33_FlipKeepsRows ==
    [][ (last'.op = "fastfill" /\ RanFastfill(rush'.log))
        => voodoo_rush_fastfill([rush EXCEPT !.fbz_mode =
                 IF 17 \in @ THEN @ \ {17} ELSE @ \cup {17}]).puma_fb
             = rush'.puma_fb ]_vars

\* the same, for the buffer bound alone: a pixel at the odd offset
\* puma_fb_size - 1 passes the bounds check and its second byte is stored at
\* offset puma_fb_size
C33_FillInsideBuffer ==
    [][ (last'.op = "fastfill" /\ RanFastfill(rush'.log))
        => \A a \in DOMAIN rush'.puma_fb : a < rush.puma_fb_size ]_vars

-----------------------------------------------------------------------------
(* the status register *)

\* C34: after a drain that leaves the entry count below the threshold, bit 16
\* of the status register (FIFO threshold pending) is clear; a drain changes
\* no other bit of the status register.
C34_DrainStatus ==
    [][ (\E i \in 1..Len(rush'.log) : rush'.log[i].ev = "drain")
        => /\ rush'.cmdfifo_entry_count < rush'.cmdfifo_threshold
                => 16 \notin rush'.status
           /\ rush'.status \ {16} = rush.status \ {16} ]_vars

\* a drain that executed a packet and left fewer entries than the threshold
C34_Witness ==
    /\ last.op = "process_cmdfifo"
    /\ \E i \in 1..Len(rush.log) : rush.log[i].ev = "packet"
    /\ rush.cmdfifo_threshold > 0
    /\ rush.cmdfifo_entry_count < rush.cmdfifo_threshold
    /\ 16 \notin rush.status

\* C35: in every reachable state reg_read(STATUS) returns 0: no register
\* write, CMDFIFO write, drain, vsync, fast fill, triangle or reset sets a bit
\* of the status register, so the FIFO-threshold bit is never pending.
C35_StatusZero ==
    voodoo_rush_reg_read(rush, SST96_STATUS) = ZeroW /\ 16 \notin rush.status

\* register index 0 written with 0xFFFFFFFF through the PUMA register window:
\* the raw slot holds the value and the status register still reads 0
C35_Witness ==
    /\ last.op = "puma_write" /\ last.a = SST96_PUMA_REG_START
    /\ RegRaw(rush, SST96_STATUS) = AllOnes
    /\ voodoo_rush_reg_read(rush, SST96_STATUS) = ZeroW

-----------------------------------------------------------------------------
(* SpecWindow: registers read back through the PUMA register window, in both
   modes: two of the color gradients, two other registers of the index range
   DRDX..DADY, and two registers outside it, written with 0x00800000 or
   0x01000000 *)

NextWindow ==
    \/ \E reg \in {SST96_DRDX, SST96_DADY, SST96_START_G, SST96_DZDX,
                   SST96_START_S, SST96_COLOR0},
          val \in {{23}, {24}} :
          Tick(MaxWindowOps) /\ RegWrite(reg, val)
    \/ \E reg \in {SST96_DRDX, SST96_DADY, SST96_START_G, SST96_DZDX,
                   SST96_START_S, SST96_COLOR0},
          base \in {SST96_PUMA_REG_START, SST96_PUMA_REG_START_4MB} :
          Tick(MaxWindowOps) /\ PumaRead(base + reg * 4096)

SpecWindow == Init /\ [][NextWindow]_vars

\* C36: a PUMA read of an address decoding to a register index other than the
\* eight color-gradient registers (dR/dG/dB/dA over dX and dY) returns exactly
\* reg_read(index); for the eight color-gradient registers it returns the
\* stored value sign-extended from 24 bits.
C36_WindowRead ==
    [][ ( /\ last'.op = "puma_read" /\ rush.enabled = 1
          /\ last'.a >= RegStart(rush) /\ last'.a < RegStart(rush) + RegSize(rush) )
        => LET reg == puma_addr_to_reg(last'.a, RegStart(rush))
           IN IF reg \in {SST96_DRDX, SST96_DRDY, SST96_DGDX, SST96_DGDY,
                          SST96_DBDX, SST96_DBDY, SST96_DADX, SST96_DADY}
              THEN Signed(last'.ret) = TwosComplement24(RegRaw(rush, reg))
              ELSE last'.ret = voodoo_rush_reg_read(rush, reg) ]_vars

\* the same for the indices outside DRDX..DADY and for the eight gradients
C36_OutsideStartRange ==
    [][ ( /\ last'.op = "puma_read" /\ rush.enabled = 1
          /\ last'.a >= RegStart(rush) /\ last'.a < RegStart(rush) + RegSize(rush)
          /\ puma_addr_to_reg(last'.a, RegStart(rush))
                \notin {SST96_START_G, SST96_START_B, SST96_START_Z, SST96_DZDX,
                        SST96_DZDY, SST96_START_A} )
        => LET reg == puma_addr_to_reg(last'.a, RegStart(rush))
           IN IF reg \in {SST96_DRDX, SST96_DRDY, SST96_DGDX, SST96_DGDY,
                          SST96_DBDX, SST96_DBDY, SST96_DADX, SST96_DADY}
              THEN Signed(last'.ret) = TwosComplement24(RegRaw(rush, reg))
              ELSE last'.ret = voodoo_rush_reg_read(rush, reg) ]_vars

\* a gradient written with 0x00800000 read back as 0xFF800000, and START_S
\* written with 0x00800000 read back unchanged
C36_WitnessOutside ==
    /\ last.op = "puma_read" /\ rush.enabled = 1
    /\ \/ /\ puma_addr_to_reg(last.a, RegStart(rush)) = SST96_DADY
          /\ last.a >= RegStart(rush) /\ RegRaw(rush, SST96_DADY) = {23}
          /\ last.ret = 23..31
       \/ /\ puma_addr_to_reg(last.a, RegStart(rush)) = SST96_START_S
          /\ last.a >= RegStart(rush) /\ RegRaw(rush, SST96_START_S) = {23}
          /\ last.ret = {23}

-----------------------------------------------------------------------------
(* SpecStop: entries queued in the ring while the read pointer is parked
   outside it (CMDFIFO_RDPTR = 512, so every drain aborts), then drained
   together.  The packet in the ring writes 0 to CMDFIFO_ENABLE *)

NextStop ==
    \/ Tick(MaxStopOps) /\ RegWrite(SST96_FBIJR_INIT3, {0, 1, 12})
    \/ Tick(MaxStopOps) /\ RegWrite(SST96_CMDFIFO_ENABLE, ZeroW)
    \/ \E val \in {W(512), ZeroW} : Tick(MaxStopOps) /\ RegWrite(SST96_CMDFIFO_RDPTR, val)
    \/ \E inp \in {<<RingBase, W(SST96_CMDFIFO_ENABLE * 16384)>>, <<RingBase + 4, ZeroW>>} :
          Tick(MaxStopOps) /\ PumaWrite(inp[1], inp[2])
    \/ Tick(MaxStopOps) /\ ProcessCmdfifo

SpecStop == Init8MB /\ [][NextStop]_vars

\* C37: once the CMDFIFO is disabled (CMDFIFO_ENABLE or FBIJR_INIT3 written
\* with bit 0 clear, by a call or by a packet executed during a drain), no
\* further packet is executed from the FIFO until it is re-enabled, even if
\* entries are still pending in the same drain invocation.
C37_DisabledStopsPackets ==
    [][ LET log == rush'.log
            IsPkt(i) == log[i].ev = "packet"
            Sets(i, on) == \E n \in 1..Len(log[i].writes) :
                              /\ log[i].writes[n][1] \in {SST96_CMDFIFO_ENABLE, SST96_FBIJR_INIT3}
                              /\ (0 \in log[i].writes[n][2]) = on
        IN /\ rush.cmdfifo_enabled = 0 => \A i \in 1..Len(log) : ~IsPkt(i)
           /\ \A k \in 1..Len(log), j \in 1..Len(log) :
                 (k < j /\ IsPkt(k) /\ IsPkt(j) /\ Sets(k, FALSE))
                    => \E m \in k..(j - 1) : IsPkt(m) /\ Sets(m, TRUE) ]_vars

\* the same across calls only: a call that starts with the CMDFIFO disabled
\* executes no packet
C37_DisabledBlocksCalls ==
    [][ rush.cmdfifo_enabled = 0
          => \A i \in 1..Len(rush'.log) : rush'.log[i].ev # "packet" ]_vars

\* a drain called with the CMDFIFO disabled by CMDFIFO_ENABLE and two entries
\* pending, which executes nothing
C37_WitnessBlocked ==
    /\ last.op = "process_cmdfifo" /\ rush.log = <<>>
    /\ rush.cmdfifo_enabled = 0 /\ rush.cmdfifo_entry_count = 2
    /\ rush.cmdfifo_read_ptr = 0
    /\ Rd32(rush.puma_fb, RingBase) = W(SST96_CMDFIFO_ENABLE * 16384)

-----------------------------------------------------------------------------
(* the PUMA aperture as memory *)

\* C38: with the CMDFIFO disabled, for every address a of the frame-buffer
\* region or the texture region and every value v, puma_write(a, v) followed by
\* puma_read(a) returns v, and the write changes no register, CMDFIFO or swap
\* state.
C38_WriteReadBack ==
    [][ ( /\ last'.op = "puma_write" /\ rush.enabled = 1 /\ rush.cmdfifo_enabled = 0
          /\ \/ last'.a < rush.puma_fb_size
             \/ last'.a >= TexStart(rush) /\ last'.a < TexStart(rush) + rush.puma_tex_size )
        => /\ voodoo_rush_puma_read(rush', last'.a) = last'.val
           /\ State([rush' EXCEPT !.puma_fb = rush.puma_fb, !.puma_tex = rush.puma_tex])
                 = State(rush) ]_vars

\* the same for the addresses that are multiples of 4 and for every address
\* of the texture region
C38_AlignedWriteReadBack ==
    [][ ( /\ last'.op = "puma_write" /\ rush.enabled = 1 /\ rush.cmdfifo_enabled = 0
          /\ \/ last'.a < rush.puma_fb_size /\ last'.a % 4 = 0
             \/ last'.a >= TexStart(rush) /\ last'.a < TexStart(rush) + rush.puma_tex_size )
        => /\ voodoo_rush_puma_read(rush', last'.a) = last'.val
           /\ State([rush' EXCEPT !.puma_fb = rush.puma_fb, !.puma_tex = rush.puma_tex])
                 = State(rush) ]_vars

\* 0xFFFFFFFF written to texture address 0x600002 and read back from it
C38_WitnessAligned ==
    /\ last.op = "puma_read" /\ last.a = SST96_PUMA_TEX_START + 2
    /\ last.ret = AllOnes /\ rush.enabled = 1
    /\ Rd32(rush.puma_tex, 0) = AllOnes

\* C39: reg_read and puma_read are pure observations: for every index or
\* address they leave all device state unchanged (raw registers, typed
\* mirrors, frame buffer, texture memory, CMDFIFO entry count and read
\* pointer, swap state, status, counters).
C39_ReadsArePure ==
    [][ last'.op \in {"reg_read", "puma_read"} => State(rush') = State(rush) ]_vars

\* a PUMA read of COLOR0 through the register window, returning the value a
\* PUMA write stored there, with the frame buffer written as well
C39_Witness ==
    /\ last.op = "puma_read" /\ last.a \in {Addr8MB_Color0, Addr4MB_Color0}
    /\ last.ret = AllOnes /\ rush.color0 = AllOnes
    /\ rush.puma_fb # EmptyMem

\* a register read of COLOR0 after the register and texture memory were written
C39_WitnessRegRead ==
    /\ last.op = "reg_read" /\ last.a = SST96_COLOR0 /\ last.ret = AllOnes
    /\ rush.puma_tex # EmptyMem

-----------------------------------------------------------------------------
(* SpecThp: the THP registers of the AT3D (MMIO offsets 0x400..0x40F) written
   by bytes and by dwords, with the Voodoo Rush present.  s is the pair of the
   AT3D registers and the Voodoo Rush structure; a forwarded THP write is
   logged as a thp_write event *)

\* at3d_write_mmio, offsets 0x400..0x403 (control), 0x408..0x40B (address) and
\* 0x40C..0x40F (data); val is a byte
at3d_write_mmio_ForwardAt40C(s, addr, val) ==
    LET offset == addr % 65536
        SetByte(w, k) == (w \ ((8 * k)..(8 * k + 7))) \cup Shl(W(val), 8 * k)
    IN IF offset \in 1024..1027
       THEN LET control == SetByte(s.at3d.thp.control, offset - 1024)
                on == IF 0 \in control THEN 1 ELSE 0
            IN IF offset = 1027
               THEN [at3d |-> [s.at3d EXCEPT !.thp.control = control,
                                             !.voodoo_rush_enabled = on],
                     rush |-> [s.rush EXCEPT !.enabled = on]]
               ELSE [s EXCEPT !.at3d.thp.control = control]
       ELSE IF offset \in 1032..1035
       THEN [s EXCEPT !.at3d.thp.address = SetByte(@, offset - 1032)]
       ELSE IF offset \in 1036..1039
       THEN LET data == SetByte(s.at3d.thp.data, offset - 1036)
                s1 == [s EXCEPT !.at3d.thp.data = data]
            IN IF offset = 1036 /\ s.at3d.voodoo_rush_enabled = 1
               THEN [s1 EXCEPT !.rush =
                        Emit(voodoo_rush_thp_write(@, Val(s.at3d.thp.address), data),
                             [ev |-> "thp_write", addr |-> s.at3d.thp.address,
                              val |-> data])]
               ELSE s1
       ELSE s
at3d_write_mmio(s, addr, val) ==
    LET offset == addr % 65536
        SetByte(w, k) == (w \ ((8 * k)..(8 * k + 7))) \cup Shl(W(val), 8 * k)
    IN IF offset \in 1024..1027
       THEN LET control == SetByte(s.at3d.thp.control, offset - 1024)
                on == IF 0 \in control THEN 1 ELSE 0
            IN IF offset = 1027
               THEN [at3d |-> [s.at3d EXCEPT !.thp.control = control,
                                             !.voodoo_rush_enabled = on],
                     rush |-> [s.rush EXCEPT !.enabled = on]]
               ELSE [s EXCEPT !.at3d.thp.control = control]
       ELSE IF offset \in 1032..1035
       THEN [s EXCEPT !.at3d.thp.address = SetByte(@, offset - 1032)]
       ELSE IF offset \in 1036..1039
       THEN LET data == SetByte(s.at3d.thp.data, offset - 1036)
                s1 == [s EXCEPT !.at3d.thp.data = data]
            IN IF offset = 1039 /\ s.at3d.voodoo_rush_enabled = 1
               THEN [s1 EXCEPT !.rush =
                        Emit(voodoo_rush_thp_write(@, Val(s.at3d.thp.address), data),
                             [ev |-> "thp_write", addr |-> s.at3d.thp.address,
                              val |-> data])]
               ELSE s1
       ELSE s

\* at3d_writel_mmio: the four bytes of val, lowest first
\* (after[k] is the state after the first k calls of at3d_write_mmio, each
\* taken from the state before it, bound as prev)
at3d_writel_mmio(s, addr, val) ==
    LET after[k \in 0..4] ==
            IF k = 0 THEN s
            ELSE CHOOSE next \in {at3d_write_mmio(prev, addr + (k - 1), ByteOf(val, k - 1)) :
                                    prev \in {after[k - 1]}} : TRUE
    IN after[4]

\* dword writes of the address register (frame-buffer offset 4, the 8MB-mode
\* address of COLOR0) and of the data register (0xFFFFFFFF, 0x00000011); byte
\* writes of the control byte 0x403 and of each byte of the data register
NextThp ==
    \/ \E inp \in {<<1032, {2}>>, <<1032, W(Addr8MB_Color0)>>,
                   <<1036, AllOnes>>, <<1036, Data11>>} :
          /\ Tick(MaxThpOps)
          /\ \E s \in {at3d_writel_mmio([at3d |-> at3d, rush |-> Begin(rush)],
                                          inp[1], inp[2])} :
                CallDev("mmio_writel", inp[1], inp[2], s.rush, ZeroW, s.at3d)
    \/ \E inp \in ({1027} \X {0, 1}) \cup ((1036..1039) \X {34, 255}) :
          /\ Tick(MaxThpOps)
          /\ \E s \in {at3d_write_mmio([at3d |-> at3d, rush |-> Begin(rush)],
                                         inp[1], inp[2])} :
                CallDev("mmio_writeb", inp[1], W(inp[2]), s.rush, ZeroW, s.at3d)

SpecThp == Init8MB /\ [][NextThp]_vars

\* C40: with the Voodoo Rush present and enabled, a 32-bit MMIO write to the
\* THP data register (offset 0x40C) forwards exactly one THP write, carrying
\* the complete 32-bit value and the current THP address register, after all
\* four bytes are stored; byte writes to offsets 0x40C..0x40E forward nothing.
C40_ThpDataWrite ==
    [][ LET forwarded == SelectSeq(rush'.log, LAMBDA e : e.ev = "thp_write")
        IN /\ ( last'.op = "mmio_writel" /\ last'.a = 1036
                /\ at3d.voodoo_rush_enabled = 1 /\ rush.enabled = 1 )
              => /\ Len(forwarded) = 1
                 /\ forwarded[1].val = last'.val
                 /\ forwarded[1].addr = at3d.thp.address
                 /\ at3d'.thp.data = last'.val
                 /\ at3d'.thp.address = at3d.thp.address
                 /\ State(rush') = State(voodoo_rush_thp_write(
                                       rush, Val(at3d.thp.address), last'.val))
           /\ ( last'.op = "mmio_writeb" /\ last'.a \in 1036..1038 )
              => /\ Len(forwarded) = 0
                 /\ State(rush') = State(rush) ]_vars

\* a dword write of 0xFFFFFFFF to the data register, over a data register
\* holding something else, forwarded to COLOR0 through the register window
C40_Witness ==
    /\ last.op = "mmio_writel" /\ last.a = 1036 /\ last.val = AllOnes
    /\ at3d.voodoo_rush_enabled = 1
    /\ at3d.thp.address = W(Addr8MB_Color0)
    /\ rush.color0 = AllOnes
    /\ Len(SelectSeq(rush.log, LAMBDA e : e.ev = "thp_write")) = 1

\* a byte write to offset 0x40E that forwards nothing
C40_WitnessByte ==
    /\ last.op = "mmio_writeb" /\ last.a = 1038
    /\ at3d.voodoo_rush_enabled = 1 /\ at3d.thp.data # ZeroW
    /\ rush.log = <<>> /\ rush.puma_fb = EmptyMem
=============================================================================
